---- MODULE Spec2Model ----
(***************************************************************************)
(* Forecast retrieval pipeline of the weather API: the cache manager       *)
(* (app/core/cache.py), the per-key fetch locks and get_forecast           *)
(* (app/services/weather_service.py), the unit conversion                  *)
(* (app/api/models.py), the timezone conversion                            *)
(* (app/services/timezone_service.py), and the two handlers in front of    *)
(* get_forecast: GET /forecast (app/api/routes.py) and the form of the web *)
(* interface, POST /forecast (app/api/web_routes.py).                      *)
(*                                                                         *)
(* The service runs on one asyncio event loop: a coroutine runs without    *)
(* interruption until it awaits something that suspends.  get_forecast     *)
(* suspends in two places only: entering a lock that is taken (line 84)    *)
(* and the upstream HTTP call (line 102).  Each action below is one such   *)
(* uninterrupted run of the handler.                                       *)
(*                                                                         *)
(* Temperatures are exact fixed-point numbers, in units of 1/Scale degree. *)
(* Times are seconds; the clock starts at 1.  Latitudes and longitudes     *)
(* given by callers are in units of 0.00001 degree; a rounded one is a     *)
(* float with 4 decimals, held as its value in units of 0.0001 degree and  *)
(* its sign bit (0.0 and -0.0 are equal numbers that print differently).   *)
(* The live table is a TTLCache of settings.CACHE_MAX_SIZE items: an       *)
(* insertion into a full table pushes out the least recently used item.    *)
(* The clock is read more than once inside one operation, and each         *)
(* reading is a time of its own, not earlier than the one before.  set     *)
(* reads it at lines 73 (created_at), 77, 78 and 80 (the expiry is that    *)
(* reading + ttl); check_health at lines 32 (uptime) and 35 (the size of   *)
(* the live table): the readings are kept or reported, and the model       *)
(* draws each of them.  get reads it at lines 50 and 51 and keeps          *)
(* neither: it either sees one time or sees the item of its key expire     *)
(* between the two; time that passes inside get without that effect is     *)
(* time that passes before or after it.                                    *)
(***************************************************************************)
EXTENDS Integers, Sequences, FiniteSets, TLC

\* ------------------------------------------------------------------ bounds

\* Number of get_forecast calls in a behaviour.
NReq == 3

\* Number of steps of the clock in a behaviour, and seconds per step.
MaxTicks == 2
TickSeconds == 1800

\* Number of direct cache.set calls in a behaviour (SpecCache).
MaxPuts == 2

\* Number of direct cache.get and cache.get_stale calls in a behaviour.
MaxGets == 3

\* Longest upstream answer given to _process_timeseries directly.
MaxSamples == 3

\* Longest list of readings given to ForecastResponse directly.
MaxReadings == 3

\* Number of direct calls of location_service.geocode in a behaviour.
MaxGeocodes == 2

\* --------------------------------------------------------- program constants

\* settings.CACHE_TTL_SECONDS (the default)
CACHE_TTL_SECONDS == 3600
CACHE_MAX_SIZE == 1000

TARGET_HOUR == 14
TARGET_MINUTE == 0

\* Optional[datetime] = None (ForecastResponse.cached_at); real stamps are >= 1.
NoTime == 0

Requests == 1..NReq

\* 5^NReq: every conversion to Fahrenheit divides by 5, and a stored reading
\* is converted at most once per request, so Scale keeps the arithmetic exact.
Scale == 5 ^ NReq

Deg(x) == x * Scale

Units == {"celsius", "fahrenheit"}

\* days: None (0, falsy in `if days:`) or a limit
DayLimits == {0, 1}

\* timezone_override values: none, a valid IANA name, an unknown name
TzOverrides == {"none", "Asia/Tokyo", "Mars/Phobos"}

\* Caller coordinates (units of 0.00001 degree): two inputs that round to
\* Belgrade 44.8125, 20.4612, and Oslo 59.9139, 10.7522.
Coords == { <<4481254, 2046123>>, <<4481251, 2046124>>, <<5991390, 1075220>> }

\* Two points 1.4 m apart on either side of the Greenwich meridian:
\* 51.5, 0.00001 and 51.5, -0.00001; both longitudes round to zero.
GreenwichEast == <<5150000, 1>>
GreenwichWest == <<5150000, -1>>

\* A point that is not on the globe: latitude 95.0, longitude 20.4612.
NorthOfPole == <<9500000, 2046120>>

\* A point in the middle of the Atlantic: 0.0, -30.0
MidAtlantic == <<0, -3000000>>

\* New York: 40.7128, -74.0060
NewYork == <<4071280, -7400600>>

\* ------------------------------------------------------------ pure functions

Abs(x) == IF x < 0 THEN 0 - x ELSE x

\* 2^e modulo d
RECURSIVE PowMod2(_, _)
PowMod2(e, d) == IF e = 0 THEN 1 ELSE (2 * PowMod2(e - 1, d)) % d

\* How many times lo can be doubled without exceeding hi
RECURSIVE Doublings(_, _)
Doublings(lo, hi) == IF 2 * lo <= hi THEN 1 + Doublings(2 * lo, hi) ELSE 0

\* f"{x:.4f}" of the float x nearest to a / 100000, for a > 0 whose last
\* digit is 5: the decimal value is half-way between two multiples of
\* 0.0001, and the float is printed from its exact binary value.  With
\* x = m / 20000 (m = a / 5, odd) and 2^k <= x < 2^(k+1), the float is
\* N / 2^(52-k) with N the integer nearest to m * 2^(52-k) / 20000; it
\* lies above the half-way point exactly when the remainder of
\* m * 2^(52-k) modulo 20000 exceeds 10000.  A remainder of zero means
\* x is the half-way point itself, and the digits round half to even.
TieRoundsUp(a) ==
    LET m == a \div 5
        e == IF m >= 20000 THEN 52 - Doublings(20000, m)
                           ELSE 53 + Doublings(m, 19999)
        rem == ((m % 20000) * PowMod2(e, 20000)) % 20000
    IN  IF rem = 0 THEN (a \div 10) % 2 = 1 ELSE 2 * rem > 20000

\* The value of f"{v:.4f}" for the float v given in units of 0.00001: the
\* multiple of 0.0001 nearest to the float, the sign kept apart from the
\* digits.
Round4(v) ==
    LET a == Abs(v)
        q == a \div 10
        r == a % 10
        up == r > 5 \/ (r = 5 /\ TieRoundsUp(a))
        mag == IF up THEN q + 1 ELSE q
    IN  IF v < 0 THEN 0 - mag ELSE mag

\* lat = float(f"{lat:.4f}") (lines 56-57): formatting keeps the sign of a
\* negative number that rounds to zero ("-0.0000") and float() keeps it
\* too (-0.0).
RoundCoord(v) == [val |-> Round4(v), neg |-> v < 0]

\* Location.truncate_coordinates, applied to a float that has 4 decimals
truncate_coordinates(x) == [val |-> Round4(x.val * 10), neg |-> x.neg]

\* f"{x:.4f}" of a float that has 4 decimals: sign and digits
Format4(x) == <<IF x.neg THEN "-" ELSE "", Abs(x.val)>>

\* The float 0.0
Zero == [val |-> 0, neg |-> FALSE]

\* f"forecast:{lat:.4f}:{lon:.4f}"
generate_key(lat, lon) == <<"forecast", Format4(lat), Format4(lon)>>

lock_key_shared(cache_key) == <<"lock", generate_key(Zero, Zero)>>

\* f"lock:{cache_key}"
lock_key_of(cache_key) == <<"lock", cache_key>>

KeyOfCoord(c) == generate_key(RoundCoord(c[1]), RoundCoord(c[2]))

Keys == { KeyOfCoord(c) :
            c \in Coords \cup {GreenwichEast, GreenwichWest, NorthOfPole} }

\* Location: latitude ge=-90 le=90, longitude ge=-180 le=180 (rounded
\* coordinates, units of 0.0001 degree)
InRange(lat, lon) ==
    /\ -900000 <= lat.val /\ lat.val <= 900000
    /\ -1800000 <= lon.val /\ lon.val <= 1800000

\* TemperatureUnit.convert_from_celsius: temp_c * 9/5 + 32
convert_from_celsius(unit, temp_c) ==
    IF unit = "celsius" THEN temp_c
    ELSE IF unit = "fahrenheit" THEN (temp_c * 9) \div 5 + Deg(32)
    ELSE temp_c

\* ---- timezone_service

\* TimezoneFinder.timezone_at for the rounded coordinates ("" when the
\* point is in no zone).
timezone_at(lat, lon) ==
    IF lat.val = 448125 /\ lon.val = 204612 THEN "Europe/Belgrade"
    ELSE IF lat.val = 599139 /\ lon.val = 107522 THEN "Europe/Oslo"
    ELSE IF lat.val = 515000 /\ lon.val = 0 THEN "Europe/London"
    ELSE IF lat.val = 407128 /\ lon.val = -740060 THEN "America/New_York"
    ELSE ""

\* pytz.timezone(name) succeeds
KnownZone(name) ==
    name \in {"UTC", "Europe/Belgrade", "Europe/Oslo", "Europe/London",
              "America/New_York", "Asia/Tokyo"}

\* TimezoneFinder.timezone_at raises ValueError for a point off the globe
timezone_at_raises(lat, lon) == ~InRange(lat, lon)

\* TimezoneService.get_timezone raises: only the look-up by coordinates
\* (line 40) can, and a valid override returns before it
get_timezone_raises(lat, lon, tz_override) ==
    /\ ~(tz_override # "none" /\ KnownZone(tz_override))
    /\ timezone_at_raises(lat, lon)

get_timezone_invalid_is_utc(lat, lon, tz_override) ==
    IF tz_override # "none"
    THEN IF KnownZone(tz_override) THEN tz_override ELSE "UTC"
    ELSE LET tz_str == timezone_at(lat, lon)
         IN  IF tz_str = "" THEN "UTC" ELSE tz_str

\* TimezoneService.get_timezone, when it returns
get_timezone(lat, lon, tz_override) ==
    IF tz_override # "none" /\ KnownZone(tz_override) THEN tz_override
    ELSE LET tz_str == timezone_at(lat, lon)
         IN  IF tz_str = "" THEN "UTC" ELSE tz_str

\* Offset from UTC, in seconds, of a zone during the forecast window
\* (January: no daylight saving time in any of them).
UtcOffset(tz) ==
    IF tz = "Asia/Tokyo" THEN 9 * 3600
    ELSE IF tz \in {"Europe/Belgrade", "Europe/Oslo"} THEN 3600
    ELSE IF tz = "America/New_York" THEN 0 - 5 * 3600
    ELSE 0

to_local_time_utc(utc_time, lat, lon, tz_override) == utc_time

\* TimezoneService.to_local_time: the local wall-clock instant
to_local_time(utc_time, lat, lon, tz_override) ==
    utc_time + UtcOffset(get_timezone(lat, lon, tz_override))

\* ---- WeatherService._process_timeseries

replaces_farther(time_diff, kept_diff) == time_diff > kept_diff

replaces_on_tie(time_diff, kept_diff) == time_diff <= kept_diff

\* line 207: the sample takes the place of the one kept for its date
replaces(time_diff, kept_diff) == time_diff < kept_diff

\* One step of the loop of lines 182-217: by_date is the dict as a sequence
\* of [date, time_diff, reading] in insertion order.
ProcessEntry(by_date, entry, lat, lon, tz_override) ==
    LET local_time == to_local_time(entry.time, lat, lon, tz_override)
        forecast_date == local_time \div 86400
        target_time == forecast_date * 86400 + TARGET_HOUR * 3600 + TARGET_MINUTE * 60
        time_diff == Abs(local_time - target_time)
        item == [date |-> forecast_date,
                 time_diff |-> time_diff,
                 reading |-> [date |-> forecast_date,
                              temperature |-> entry.air_temperature,
                              unit |-> "celsius",
                              time |-> local_time % 86400,
                              source_time |-> entry.time]]
        at == { i \in 1..Len(by_date) : by_date[i].date = forecast_date }
    IN  IF at = {} THEN Append(by_date, item)
        ELSE LET i == CHOOSE j \in at : TRUE
             IN  IF replaces(time_diff, by_date[i].time_diff)
                 THEN [by_date EXCEPT ![i] = item]
                 ELSE by_date

RECURSIVE ProcessLoop(_, _, _, _, _)
ProcessLoop(by_date, timeseries, lat, lon, tz_override) ==
    IF timeseries = <<>> THEN by_date
    ELSE ProcessLoop(ProcessEntry(by_date, Head(timeseries), lat, lon, tz_override),
                     Tail(timeseries), lat, lon, tz_override)

\* list.sort(key=date) / sorted(v, key=date): stable insertion sort
RECURSIVE InsertByDate(_, _)
InsertByDate(sorted, r) ==
    IF sorted = <<>> THEN <<r>>
    ELSE IF r.date < Head(sorted).date THEN <<r>> \o sorted
    ELSE <<Head(sorted)>> \o InsertByDate(Tail(sorted), r)

SortByDate_unsorted(readings) == readings

RECURSIVE SortByDate(_)
SortByDate(readings) ==
    IF readings = <<>> THEN <<>>
    ELSE InsertByDate(SortByDate(SubSeq(readings, 1, Len(readings) - 1)),
                      readings[Len(readings)])

_process_timeseries(timeseries, lat, lon, tz_override) ==
    LET by_date == ProcessLoop(<<>>, timeseries, lat, lon, tz_override)
    IN  SortByDate([i \in 1..Len(by_date) |-> by_date[i].reading])

\* ForecastResponse(...) as built at lines 134-146: the validators sort
\* the readings and, when there are any, set days_returned to their number.
ForecastResponse(lat, lon, readings, days_returned) ==
    LET forecasts == SortByDate(readings)
    IN  [latitude |-> truncate_coordinates(lat),
         longitude |-> truncate_coordinates(lon),
         forecasts |-> forecasts,
         days_returned |-> IF forecasts # <<>> THEN Len(forecasts) ELSE days_returned,
         cached |-> FALSE, stale |-> FALSE, cached_at |-> NoTime]

\* WeatherService._convert_units: replaces response.forecasts by converted
\* copies of the readings (the response object itself is updated in place).
_convert_units(response, target_unit) ==
    [response EXCEPT !.forecasts =
        [i \in 1..Len(response.forecasts) |->
            [response.forecasts[i] EXCEPT
                !.temperature = convert_from_celsius(target_unit, @),
                !.unit = target_unit]]]

\* WeatherService._filter_days: the slice forecasts[:days] stops at days,
\* at the end of the list when days is larger, and |days| before the end
\* (or at the start) when days is negative.
_filter_days(response, days) ==
    LET len == Len(response.forecasts)
        stop == IF days < 0
                THEN (IF len + days < 0 THEN 0 ELSE len + days)
                ELSE (IF days < len THEN days ELSE len)
        kept == SubSeq(response.forecasts, 1, stop)
    IN  [response EXCEPT !.forecasts = kept, !.days_returned = Len(kept)]

\* The tail shared by all four return paths (lines 69-77, 93-98, 115-120,
\* 151-159): conversion unless Celsius, then the day limit if given.
Shape(response, unit, days) ==
    LET converted == IF unit # "celsius" THEN _convert_units(response, unit)
                     ELSE response
    IN  IF days # 0 THEN _filter_days(converted, days) ELSE converted

\* ------------------------------------------------------------ upstream data

\* Provider answers (YrNoTimeseriesEntry lists): time in seconds from the
\* start of day 0 in UTC, air_temperature in Celsius.
TS_TwoDays ==
    << [time |-> 13 * 3600,         air_temperature |-> Deg(0)],
       [time |-> 86400 + 13 * 3600, air_temperature |-> Deg(100)] >>

TS_Unsorted ==
    << [time |-> 86400 + 14 * 3600, air_temperature |-> Deg(100)],
       [time |-> 13 * 3600 + 600,   air_temperature |-> Deg(0)],
       [time |-> 12 * 3600,         air_temperature |-> Deg(100)] >>

Timeseries == { <<>>, TS_TwoDays, TS_Unsorted }

\* Upstream samples around the target hour and around midnight.  In
\* Belgrade (UTC+1): 13:00, 15:00 and 13:50 of day 0, 00:30 of day 1 and
\* 14:00 of day 1; in Tokyo (UTC+9): 21:00, 23:00, 21:50 of day 0, 08:30
\* and 22:00 of day 1.
Samples ==
    { [time |-> 12 * 3600,         air_temperature |-> Deg(1)],
      [time |-> 14 * 3600,         air_temperature |-> Deg(2)],
      [time |-> 13 * 3600 - 600,   air_temperature |-> Deg(3)],
      [time |-> 23 * 3600 + 1800,  air_temperature |-> Deg(4)],
      [time |-> 86400 + 13 * 3600, air_temperature |-> Deg(5)] }

\* The sequences of at most n elements of S
RECURSIVE SeqsUpTo(_, _)
SeqsUpTo(S, n) ==
    IF n = 0 THEN { <<>> }
    ELSE LET shorter == SeqsUpTo(S, n - 1)
         IN  shorter \cup { Append(q, x) : q \in shorter, x \in S }

\* ------------------------------------------------------------------- state

VARIABLES
    now,            \* the clock (datetime.utcnow() and the TTLCache timer)
    cache_manager,  \* the global CacheManager: cache, stale_cache, stats
    fetch_locks,    \* the global lock registry: lock key -> asyncio.Lock
    pc,             \* where each get_forecast call is
    req,            \* the locals of each call in flight, with the upstream
                    \* calls it has made (fetches) and what its lookups
                    \* have added to the hit and miss counters (hits, misses)
    last,           \* the outcome of the call that returned last
    hist,           \* history, per key: calls of get_forecast (nreq), those
                    \* made while no other call for the key was in flight
                    \* (lone), calls of fetch_forecast (calls), failed ones
                    \* (fails), expiries of a live entry (expiries), live
                    \* entries pushed out of a full table (evictions); the
                    \* keys a fetch has stored (stored); direct cache.set
                    \* calls (puts) and direct cache.get / get_stale /
                    \* get_statistics calls (gets); all cache.get calls
                    \* (lookups) and those that raised KeyError (raised);
                    \* per key, the slots as its set calls leave
                    \* them when applied in sequence (ref), the locks
                    \* made for it (created) and the timezone override
                    \* under which its stored readings were sampled (zone)
    location_service,   \* the global LocationService: its cache of
                    \* geocoding results, and the history of its calls
    call            \* a direct call of a function or of the cache manager:
                    \* its name (op), its arguments (arg), what it returned
                    \* (result) and whether it has run (done)

vars == <<now, cache_manager, fetch_locks, pc, req, last, hist,
          location_service, call>>

EmptyMap == [x \in {} |-> x]

\* d[k] = v
Put(d, k, v) == [x \in DOMAIN d \cup {k} |-> IF x = k THEN v ELSE d[x]]

\* via is the caller of get_forecast: "service" (a direct call), "api" (GET
\* /forecast, routes.py) or "web" (POST /forecast, web_routes.py)
NoReq == [key |-> generate_key(Zero, Zero), lat |-> Zero, lon |-> Zero,
          unit |-> "celsius", days |-> 0, tz |-> "none", via |-> "service",
          fetches |-> 0, hits |-> 0, misses |-> 0]

NoResponse == [latitude |-> Zero, longitude |-> Zero, forecasts |-> <<>>,
               days_returned |-> 0, cached |-> FALSE, stale |-> FALSE,
               cached_at |-> NoTime]

NoEntry == [data |-> NoResponse, created_at |-> NoTime, hit_count |-> 0,
            expires |-> NoTime, orig |-> <<>>]

NoLast == [path |-> "none", key |-> NoReq.key, unit |-> "celsius", days |-> 0,
           tz |-> "none", via |-> "service", resp |-> NoResponse,
           src |-> NoEntry, fetches |-> 0, hits |-> 0, misses |-> 0]

\* ---- CacheManager (app/core/cache.py)

Contains_no_expiry(cache, key, t) == key \in DOMAIN cache

\* TTLCache.__contains__: present and not expired
Contains(cache, key, t) == key \in DOMAIN cache /\ t < cache[key].expires

\* TTLCache.expire: drop the expired items
Expire(cache, t) ==
    [x \in { k \in DOMAIN cache : t < cache[k].expires } |-> cache[x]]

\* TTLCache.__getlink: the key becomes the most recently used
getlink(order, key) == Append(SelectSeq(order, LAMBDA x : x # key), key)

\* `key in self.cache` finds the item at t and `self.cache[key]` finds it
\* expired at t2: TTLCache.__getitem__ raises KeyError
expires_between(cm, key, t, t2) ==
    Contains(cm.cache, key, t) /\ ~Contains(cm.cache, key, t2)

\* What a cache operation leaves when line 51 or line 78 raises KeyError:
\* __getitem__ has made the key the most recently used before it looked
\* at the expiry, nothing else has changed
KeyErrorRaised(cm, key) ==
    [cm |-> [cm EXCEPT !.order = getlink(@, key)], found |-> FALSE,
     raised |-> TRUE]

get_miss_uncounted(cm, key, t, t2) ==
    IF expires_between(cm, key, t, t2) THEN KeyErrorRaised(cm, key)
    ELSE IF Contains(cm.cache, key, t)
    THEN [cm |-> [cm EXCEPT !.cache[key].hit_count = @ + 1,
                            !.order = getlink(@, key),
                            !.stats.hits = @ + 1],
          found |-> TRUE, raised |-> FALSE]
    ELSE [cm |-> cm, found |-> FALSE, raised |-> FALSE]

get_empty_is_miss(cm, key, t, t2) ==
    IF expires_between(cm, key, t, t2) THEN KeyErrorRaised(cm, key)
    ELSE IF Contains(cm.cache, key, t) /\ cm.cache[key].data.forecasts # <<>>
    THEN [cm |-> [cm EXCEPT !.cache[key].hit_count = @ + 1,
                            !.order = getlink(@, key),
                            !.stats.hits = @ + 1],
          found |-> TRUE, raised |-> FALSE]
    ELSE [cm |-> [cm EXCEPT !.stats.misses = @ + 1], found |-> FALSE,
          raised |-> FALSE]

get_always_miss(cm, key, t, t2) ==
    [cm |-> [cm EXCEPT !.stats.misses = @ + 1], found |-> FALSE,
     raised |-> FALSE]

get_miss_clears_stale(cm, key, t, t2) ==
    IF expires_between(cm, key, t, t2) THEN KeyErrorRaised(cm, key)
    ELSE IF Contains(cm.cache, key, t)
    THEN [cm |-> [cm EXCEPT !.cache[key].hit_count = @ + 1,
                            !.order = getlink(@, key),
                            !.stats.hits = @ + 1],
          found |-> TRUE, raised |-> FALSE]
    ELSE [cm |-> [cm EXCEPT !.stats.misses = @ + 1,
                            !.stale_cache = [x \in DOMAIN @ \ {key} |-> @[x]]],
          found |-> FALSE, raised |-> FALSE]

\* CacheManager.get.  The clock of the live table is read twice: t by
\* `key in self.cache` (line 50), t2 by `self.cache[key]` (line 51).  The
\* entry is cm.cache[key] when found; reading it makes the key the most
\* recently used.  When the item expires between the two readings, line 51
\* raises KeyError, which nothing in get catches: no entry is returned and
\* neither counter changes.
get(cm, key, t, t2) ==
    IF expires_between(cm, key, t, t2) THEN KeyErrorRaised(cm, key)
    ELSE IF Contains(cm.cache, key, t)
    THEN [cm |-> [cm EXCEPT !.cache[key].hit_count = @ + 1,
                            !.order = getlink(@, key),
                            !.stats.hits = @ + 1],
          found |-> TRUE, raised |-> FALSE]
    ELSE [cm |-> [cm EXCEPT !.stats.misses = @ + 1], found |-> FALSE,
          raised |-> FALSE]

get_stale_never(cm, key) == FALSE

get_stale_unexpired(cm, key) ==
    key \in DOMAIN cm.stale_cache /\ now < cm.stale_cache[key].expires

\* CacheManager.get_stale
get_stale(cm, key) == key \in DOMAIN cm.stale_cache

\* TTLCache.__setitem__ reads the timer (t): the items expired at t are
\* dropped; a key that is not in the table and finds it full pushes out the
\* least recently used item (Cache.popitem); the item of key expires at
\* t + ttl and the key becomes the most recently used.
setitem(cm, key, entry, t) ==
    LET kept == Expire(cm.cache, t)
        links == SelectSeq(cm.order, LAMBDA x : x \in DOMAIN kept)
        full == key \notin DOMAIN kept /\ Cardinality(DOMAIN kept) >= cm.maxsize
        room == IF full
                THEN [x \in DOMAIN kept \ {Head(links)} |-> kept[x]]
                ELSE kept
        rest == IF full THEN Tail(links) ELSE links
    IN  [cm EXCEPT !.cache = Put(room, key,
                                 [entry EXCEPT
                                    !.expires = t + CACHE_TTL_SECONDS]),
                   !.order = getlink(rest, key)]

\* The entry that set builds (lines 71-75), created_at being the reading
\* of datetime.utcnow() at line 73.  The entry has no expiry of its own:
\* expires is the expiry of its item in a table, which setitem gives it.
\* orig remembers the readings as first stored.
CacheEntry(data, t) ==
    [data |-> data, created_at |-> t, hit_count |-> 0,
     expires |-> NoTime, orig |-> data.forecasts]

set_without_demotion(cm, key, data, t, t1, t2, t3) ==
    IF expires_between(cm, key, t1, t2) THEN KeyErrorRaised(cm, key)
    ELSE [cm |-> setitem(cm, key, CacheEntry(data, t), t3), found |-> FALSE,
          raised |-> FALSE]

set_demotes_expired(cm, key, data, t, t1, t2, t3) ==
    IF expires_between(cm, key, t1, t2) THEN KeyErrorRaised(cm, key)
    ELSE [cm |-> setitem([cm EXCEPT !.stale_cache =
                             IF key \in DOMAIN cm.cache
                             THEN Put(@, key, cm.cache[key]) ELSE @],
                         key, CacheEntry(data, t), t3),
          found |-> FALSE, raised |-> FALSE]

\* CacheManager.set.  The clock is read four times: t by
\* datetime.utcnow() (line 73), which becomes created_at; t1 by
\* `key in self.cache` (line 77); t2 by `self.cache[key]` (line 78); t3
\* by `self.cache[key] = entry` (line 80), from which the item expires at
\* t3 + ttl.  When the item expires between t1 and t2, line 78 raises
\* KeyError before anything is written, and set stores nothing.  found
\* tells whether an entry was moved to the stale table.
set(cm, key, data, t, t1, t2, t3) ==
    IF expires_between(cm, key, t1, t2) THEN KeyErrorRaised(cm, key)
    ELSE [cm |-> setitem([cm EXCEPT !.stale_cache =
                             IF Contains(cm.cache, key, t1)
                             THEN Put(@, key, cm.cache[key]) ELSE @],
                         key, CacheEntry(data, t), t3),
          found |-> Contains(cm.cache, key, t1), raised |-> FALSE]

\* CacheManager.get_size: len() of a TTLCache first drops the expired
\* items (TTLCache.expire, from the table and from the order of use) and
\* then counts what is left.  cm is the cache manager after the call.
get_size(cm, t) ==
    LET kept == Expire(cm.cache, t)
    IN  [cm |-> [cm EXCEPT !.cache = kept,
                           !.order = SelectSeq(@, LAMBDA x : x \in DOMAIN kept)],
         size |-> Cardinality(DOMAIN kept)]

\* A float that is the quotient of two naturals, as the fraction in lowest
\* terms; None is the empty tuple.
None == <<>>

RECURSIVE GCD(_, _)
GCD(a, b) == IF b = 0 THEN a ELSE GCD(b, a % b)

Quotient(n, d) == <<n \div GCD(n, d), d \div GCD(n, d)>>

get_hit_rate_zero_when_idle(cm) ==
    LET total == cm.stats.hits + cm.stats.misses
    IN  IF total = 0 THEN <<0, 1>> ELSE Quotient(cm.stats.hits * 100, total)

\* CacheManager.get_hit_rate
get_hit_rate(cm) ==
    LET total == cm.stats.hits + cm.stats.misses
    IN  IF total = 0 THEN None ELSE Quotient(cm.stats.hits * 100, total)

\* CacheManager.get_statistics, the dict it returns: max_size is
\* settings.CACHE_MAX_SIZE, the size the live table was made with (line
\* 31).  The call leaves the cache manager as get_size (line 97) leaves it.
get_statistics(cm, t) ==
    [size |-> get_size(cm, t).size, max_size |-> cm.maxsize,
     ttl_seconds |-> CACHE_TTL_SECONDS, hits |-> cm.stats.hits,
     misses |-> cm.stats.misses, hit_rate |-> get_hit_rate(cm)]

\* ---- asyncio.Lock as used at line 84 (asyncio/locks.py of CPython 3.11)

\* A lock is its flag _locked and its queue _waiters.  A waiter is the
\* future that a task awaits inside Lock.acquire: fut is "pending",
\* "result" once _wake_up_first has set its result, or "cancelled" once
\* task.cancel() has cancelled it; must_cancel is the flag that
\* task.cancel() sets on a task whose future is already done.  A waiter
\* stays in the queue until its task runs again.
NewLock == [locked |-> FALSE, waiters |-> <<>>]

CanAcquire_when_unlocked(lock) == ~lock.locked

\* Lock.acquire returns at once, with the lock taken, when the lock is
\* free and every waiter in the queue is cancelled:
\* `not self._locked and (self._waiters is None or
\*  all(w.cancelled() for w in self._waiters))`
CanAcquire(lock) ==
    /\ ~lock.locked
    /\ \A i \in 1..Len(lock.waiters) : lock.waiters[i].fut = "cancelled"

\* Lock._wake_up_first: the first future of the queue gets its result if
\* it is not done; one that is done (woken before, or cancelled) is left,
\* and no other waiter is looked at
_wake_up_first(lock) ==
    IF lock.waiters # <<>> /\ Head(lock.waiters).fut = "pending"
    THEN [lock EXCEPT !.waiters[1].fut = "result"]
    ELSE lock

\* Lock.release: unlock and wake the first waiter (it takes the lock when
\* its task next runs)
release(lock) == _wake_up_first([lock EXCEPT !.locked = FALSE])

release_on_exception_leak(lock) == lock

\* `async with` leaves the block by an exception
release_on_exception(lock) == release(lock)

creates_lock_always(locks, lk) == TRUE

\* line 81: the key has no lock yet
creates_lock(locks, lk) == lk \notin DOMAIN locks

\* lines 80-82: get or create the lock of the key
get_or_create_lock(locks, lk) ==
    IF creates_lock(locks, lk) THEN Put(locks, lk, NewLock) ELSE locks

recheck_skipped(cm, key, t, t2) ==
    [cm |-> cm, found |-> FALSE, raised |-> FALSE]

recheck_uncounted(cm, key, t, t2) ==
    IF expires_between(cm, key, t, t2) THEN KeyErrorRaised(cm, key)
    ELSE [cm |-> cm, found |-> Contains(cm.cache, key, t), raised |-> FALSE]

\* lines 85-87: the second look at the cache, under the lock
recheck(cm, key, t, t2) == get(cm, key, t, t2)

fetch_forecast_twice(n) == n + 2

\* line 102: one call of yrno_client.fetch_forecast
fetch_forecast_calls(n) == n + 1

\* ---- LocationService (app/services/location_service.py)

\* line 22: results are kept for 24 hours
GEOCODE_TTL == 86400

\* Names that callers ask for
LocationNames == {"Oslo", " oslo ", "Atlantis"}

\* line 35: location_name.lower().strip()
cache_key_of(location_name) ==
    CASE location_name = "Oslo" -> "oslo"
      [] location_name = " oslo " -> "oslo"
      [] location_name = "oslo" -> "oslo"
      [] location_name = "Atlantis" -> "atlantis"
      [] location_name = "X" -> "x"

\* The place the geocoder knows under a name: latitude and longitude in
\* units of 0.00001 degree, and the address
Located(location_name) ==
    IF cache_key_of(location_name) = "oslo"
    THEN <<5991390, 1075220, "Oslo, Norge">>
    ELSE <<>>

\* What geolocator.geocode can do when asked for a name: return a location,
\* return None, or raise
GeocoderAnswers(location_name) ==
    (IF Located(location_name) # <<>> THEN {"found"} ELSE {"none"})
        \cup {"GeocoderTimedOut", "GeocoderServiceError"}

LocationServiceInit ==
    [cache |-> EmptyMap, ncalls |-> 0, provider |-> 0, first |-> EmptyMap,
     answered |-> EmptyMap, returned |-> None]

geocode_none_uncached(ls, location_name, answer, t) ==
    LET cache_key == cache_key_of(location_name)
        cached == Contains(ls.cache, cache_key, t)
        location == Located(location_name)
        result == IF cached THEN ls.cache[cache_key].value
                  ELSE IF answer = "found"
                  THEN <<RoundCoord(location[1]), RoundCoord(location[2]),
                         location[3]>>
                  ELSE None
        stores == ~cached /\ answer = "found"
    IN  [ls EXCEPT
           !.cache = IF stores
                     THEN Put(Expire(@, t), cache_key,
                              [value |-> result, expires |-> t + GEOCODE_TTL])
                     ELSE @,
           !.ncalls = @ + 1,
           !.provider = IF cached THEN @ ELSE @ + 1,
           !.first = IF cache_key \in DOMAIN @ THEN @
                     ELSE Put(@, cache_key, [result |-> result, at |-> t]),
           !.answered = IF ~cached /\ answer \in {"found", "none"}
                        THEN Put(@, cache_key, [result |-> result, at |-> t])
                        ELSE @,
           !.returned = result]

\* LocationService.geocode; answer is what the geocoder does if it is
\* asked.  The service after the call: its cache, and of its history the number
\* of calls (ncalls), of calls of the geocoder (provider), the first
\* result for each key (first), the last result that came from the
\* geocoder as a location or as None (answered), and what this call
\* returned (returned).  The cache holds far fewer than its 500 names.
\* `cache_key in self.geocode_cache` and `self.geocode_cache[cache_key]`
\* read the clock of that table one after the other; its entries live for
\* 24 hours, longer than any behaviour here lasts, so that none expires
\* between the two readings, nor after the later reading of the store
\* (lines 48 and 58), which is taken at t as well.
geocode(ls, location_name, answer, t) ==
    LET cache_key == cache_key_of(location_name)
        cached == Contains(ls.cache, cache_key, t)
        location == Located(location_name)
        result == IF cached THEN ls.cache[cache_key].value
                  ELSE IF answer = "found"
                  THEN <<RoundCoord(location[1]), RoundCoord(location[2]),
                         location[3]>>
                  ELSE None
        stores == ~cached /\ answer \in {"found", "none"}
    IN  [ls EXCEPT
           !.cache = IF stores
                     THEN Put(Expire(@, t), cache_key,
                              [value |-> result, expires |-> t + GEOCODE_TTL])
                     ELSE @,
           !.ncalls = @ + 1,
           !.provider = IF cached THEN @ ELSE @ + 1,
           !.first = IF cache_key \in DOMAIN @ THEN @
                     ELSE Put(@, cache_key, [result |-> result, at |-> t]),
           !.answered = IF stores
                        THEN Put(@, cache_key, [result |-> result, at |-> t])
                        ELSE @,
           !.returned = result]

\* ------------------------------------------------------------------ actions

\* The slots of one key when its set calls are applied one after the other
\* (lines 71-80 run alone, with the readings t, t1 and t3 of lines 73, 77
\* and 80): the times at which the value in the live slot and the value in
\* the stale slot were created, and the time at which the live one expires.
RefSet(slot, t, t1, t3) ==
    [live |-> t,
     stale |-> IF slot.live # NoTime /\ t1 < slot.expires
               THEN slot.live ELSE slot.stale,
     expires |-> t3 + CACHE_TTL_SECONDS]

NoCall == [op |-> "none", arg |-> <<>>, result |-> <<>>, done |-> FALSE]

\* The service as the modules are loaded: empty cache, no lock.
ServiceInitWith(max_size) ==
    /\ now = 1
    /\ cache_manager = [cache |-> EmptyMap, stale_cache |-> EmptyMap,
                        stats |-> [hits |-> 0, misses |-> 0],
                        maxsize |-> max_size, order |-> <<>>]
    /\ fetch_locks = EmptyMap
    /\ location_service = LocationServiceInit
    /\ pc = [r \in Requests |-> "idle"]
    /\ req = [r \in Requests |-> NoReq]
    /\ last = NoLast
    /\ hist = [nreq |-> [k \in Keys |-> 0], calls |-> [k \in Keys |-> 0],
               fails |-> [k \in Keys |-> 0], expiries |-> [k \in Keys |-> 0],
               evictions |-> [k \in Keys |-> 0],
               lone |-> [k \in Keys |-> 0], stored |-> {}, puts |-> 0,
               gets |-> 0, lookups |-> 0, raised |-> 0,
               created |-> [k \in Keys |-> 0],
               zone |-> [k \in Keys |-> "none"],
               ref |-> [k \in Keys |-> [live |-> NoTime, stale |-> NoTime,
                                        expires |-> NoTime]]]

\* The settings as config.py reads them with nothing in the environment
ServiceInit == ServiceInitWith(CACHE_MAX_SIZE)

Init == ServiceInit /\ call = NoCall

\* lines 65-67 and 89-91: the entry's own response object, stamped
serve_cached(entry) ==
    [entry.data EXCEPT !.cached = TRUE, !.cached_at = entry.created_at]

serve_stale_unflagged(entry) ==
    [entry.data EXCEPT !.cached = TRUE, !.cached_at = entry.created_at]

\* lines 110-113: the stale entry's own response object, stamped
serve_stale(entry) ==
    [entry.data EXCEPT !.cached = TRUE, !.stale = TRUE,
                       !.cached_at = entry.created_at]

Outcome(path, rq, resp, src) ==
    [path |-> path, key |-> rq.key, unit |-> rq.unit, days |-> rq.days,
     tz |-> rq.tz, via |-> rq.via, resp |-> resp, src |-> src,
     fetches |-> rq.fetches, hits |-> rq.hits, misses |-> rq.misses]

ServeLive_own_zone(r, rq, cm, path) ==
    LET entry == cm.cache[rq.key]
        own == [serve_cached(entry) EXCEPT
                  !.forecasts = _process_timeseries(TS_Unsorted, rq.lat,
                                                    rq.lon, rq.tz)]
        response == Shape(own, rq.unit, rq.days)
    IN  /\ cache_manager' = [cm EXCEPT !.cache[rq.key].data = response]
        /\ last' = Outcome(path, rq, response, entry)
        /\ pc' = [pc EXCEPT ![r] = "done"]
        /\ req' = [req EXCEPT ![r] = NoReq]

\* Lines 63-77 and 87-98: the call returns the entry's own response object,
\* stamped and shaped in place.
ServeLive(r, rq, cm, path) ==
    LET entry == cm.cache[rq.key]
        response == Shape(serve_cached(entry), rq.unit, rq.days)
    IN  /\ cache_manager' = [cm EXCEPT !.cache[rq.key].data = response]
        /\ last' = Outcome(path, rq, response, entry)
        /\ pc' = [pc EXCEPT ![r] = "done"]
        /\ req' = [req EXCEPT ![r] = NoReq]

\* The readings that the clock of the live table can give to the second
\* look of an operation on key whose first look is made now: the same
\* time, or, when the item of key is live and about to expire, the next
\* instant of the clock
ClockReads(cm, key) ==
    {now} \cup { t \in {now + TickSeconds} :
                   /\ now < 1 + MaxTicks * TickSeconds
                   /\ expires_between(cm, key, now, t) }

\* The readings that the clock can give to an operation that begins now
Later ==
    { t \in { now + i * TickSeconds : i \in 0..MaxTicks } :
        t <= 1 + MaxTicks * TickSeconds }

\* The readings <<t1, t2, t3>> that the clock of the live table can give
\* to lines 77, 78 and 80 of a set whose line 73 reads now
SetReads ==
    { s \in Later \X Later \X Later : s[1] <= s[2] /\ s[2] <= s[3] }

\* The history h once the clock has moved from now to t: the live entries
\* of cm whose time has come have expired
Elapsed(h, cm, t) ==
    [h EXCEPT !.expiries =
       [k \in Keys |->
          IF /\ k \in DOMAIN cm.cache
             /\ now < cm.cache[k].expires
             /\ cm.cache[k].expires <= t
          THEN @[k] + 1 ELSE @[k]]]

\* The history h once an insertion made at t has turned cm into stored:
\* the entries of other keys, unexpired at t, that are gone were pushed out
Inserted(h, cm, stored, t) ==
    [h EXCEPT !.evictions =
       [k \in Keys |->
          IF Contains(cm.cache, k, t) /\ k \notin DOMAIN stored.cache
          THEN @[k] + 1 ELSE @[k]]]

\* A KeyError raised by a cache operation leaves get_forecast: no handler
\* in it catches the exception (line 103 catches httpx.HTTPError only)
RaiseKeyError(r, rq, cm, h) ==
    /\ cache_manager' = cm
    /\ last' = Outcome("key_error", rq, NoResponse, NoEntry)
    /\ pc' = [pc EXCEPT ![r] = "done"]
    /\ req' = [req EXCEPT ![r] = NoReq]
    /\ hist' = h

\* Lines 85-102, entered with the lock of the key just taken (locks has it
\* locked): the second look at the cache, then the upstream call starts.
\* h is the history up to here.  A KeyError of the second look leaves the
\* `async with` block, which releases the lock.
UnderLock(r, rq, cm, locks, h) ==
    \E t2 \in ClockReads(cm, rq.key) :
        LET g == recheck(cm, rq.key, now, t2)
            lk == lock_key_of(rq.key)
            counted == [rq EXCEPT
                          !.hits = @ + g.cm.stats.hits - cm.stats.hits,
                          !.misses = @ + g.cm.stats.misses - cm.stats.misses]
            looked == Elapsed([h EXCEPT !.lookups = @ + 1], cm, t2)
        IN  /\ now' = t2
            /\ IF g.raised
               THEN /\ RaiseKeyError(r, counted, g.cm,
                                     [looked EXCEPT !.raised = @ + 1])
                    /\ fetch_locks' =
                         [locks EXCEPT ![lk] = release_on_exception(@)]
               ELSE IF g.found
               THEN /\ ServeLive(r, counted, g.cm, "hit_locked")
                    /\ fetch_locks' = [locks EXCEPT ![lk] = release(@)]
                    /\ hist' = looked
               ELSE /\ cache_manager' = g.cm
                    /\ fetch_locks' = locks
                    /\ pc' = [pc EXCEPT ![r] = "fetching"]
                    /\ req' = [req EXCEPT ![r] =
                                 [counted EXCEPT
                                    !.fetches = fetch_forecast_calls(@)]]
                    /\ hist' = [looked EXCEPT
                                  !.calls[rq.key] = fetch_forecast_calls(@)]
                    /\ last' = last

\* get_forecast is called by via with lat and lon already rounded (lines
\* 55-56): lines 58-84, and on to line 102 when the lock is free.  A
\* KeyError of the first look (line 62) leaves get_forecast before any
\* lock is made or looked at.  A call that finds the lock taken joins its
\* waiters with a pending future.
GetForecast(r, lat, lon, unit, days, tz, via) ==
    /\ pc[r] = "idle"
    /\ \A q \in Requests : q < r => pc[q] # "idle"
    /\ \E t2 \in ClockReads(cache_manager, generate_key(lat, lon)) :
       LET cache_key == generate_key(lat, lon)
           g == get(cache_manager, cache_key, now, t2)
           rq == [key |-> cache_key, lat |-> lat, lon |-> lon, unit |-> unit,
                  days |-> days, tz |-> tz, via |-> via, fetches |-> 0,
                  hits |-> g.cm.stats.hits - cache_manager.stats.hits,
                  misses |-> g.cm.stats.misses - cache_manager.stats.misses]
           lk == lock_key_of(cache_key)
           locks == get_or_create_lock(fetch_locks, lk)
           in_flight == { q \in Requests : /\ pc[q] \in {"waitlock", "fetching"}
                                            /\ req[q].key = cache_key }
           h == Elapsed([hist EXCEPT !.nreq[cache_key] = @ + 1,
                                     !.lookups = @ + 1,
                                     !.lone[cache_key] =
                                         IF in_flight = {} THEN @ + 1 ELSE @],
                        cache_manager, t2)
           missed == [h EXCEPT !.created[cache_key] =
                                  IF creates_lock(fetch_locks, lk)
                                  THEN @ + 1 ELSE @]
       IN  IF g.raised
           THEN /\ RaiseKeyError(r, rq, g.cm, [h EXCEPT !.raised = @ + 1])
                /\ now' = t2
                /\ UNCHANGED fetch_locks
           ELSE IF g.found
           THEN /\ ServeLive(r, rq, g.cm, "hit")
                /\ hist' = h
                /\ now' = t2
                /\ UNCHANGED fetch_locks
           ELSE IF CanAcquire(locks[lk])
           THEN /\ t2 = now
                /\ UnderLock(r, rq, g.cm, [locks EXCEPT ![lk].locked = TRUE],
                             missed)
           ELSE /\ cache_manager' = g.cm
                /\ fetch_locks' =
                     [locks EXCEPT ![lk].waiters =
                        Append(@, [task |-> r, fut |-> "pending",
                                   must_cancel |-> FALSE])]
                /\ pc' = [pc EXCEPT ![r] = "waitlock"]
                /\ req' = [req EXCEPT ![r] = rq]
                /\ hist' = missed
                /\ now' = t2
                /\ last' = last
    /\ UNCHANGED call

\* get_forecast called by a caller that has the coordinates
Start(r, c, unit, days, tz) ==
    /\ GetForecast(r, RoundCoord(c[1]), RoundCoord(c[2]), unit, days, tz,
                   "service")
    /\ UNCHANGED location_service

\* The queue of a lock without the future of task r
\* (`self._waiters.remove(fut)`)
leave(lock, r) ==
    [lock EXCEPT !.waiters = SelectSeq(@, LAMBDA w : w.task # r)]

\* The task of a waiting call runs again after its future got its result
\* (line 84): Lock.acquire takes the future out of the queue, sets
\* _locked and returns, and the call goes on from line 85.
Resume(r) ==
    /\ pc[r] = "waitlock"
    /\ LET lk == lock_key_of(req[r].key)
           lock == fetch_locks[lk]
       IN  /\ \E i \in 1..Len(lock.waiters) :
                 lock.waiters[i] = [task |-> r, fut |-> "result",
                                    must_cancel |-> FALSE]
           /\ UnderLock(r, req[r], cache_manager,
                        [fetch_locks EXCEPT ![lk] =
                            [leave(lock, r) EXCEPT !.locked = TRUE]],
                        hist)
    /\ UNCHANGED <<call, location_service>>

\* The upstream call returns a timeseries: lines 125-159.  Location (lines
\* 134-138) refuses coordinates that are out of range: the ValidationError
\* leaves get_forecast, nothing is stored.  A KeyError of cache_manager.set
\* (line 149) leaves get_forecast too.  The clock is left at the last
\* reading that set made of it: line 80, or line 78 when that line raised.
FetchOk(r, timeseries) ==
    /\ pc[r] = "fetching"
    /\ \E s \in SetReads :
       LET rq == req[r]
           t2 == s[3]
           lk == lock_key_of(rq.key)
           readings == _process_timeseries(timeseries, rq.lat, rq.lon, rq.tz)
           built == ForecastResponse(rq.lat, rq.lon, readings, Len(readings))
           stored == set(cache_manager, rq.key, built, now, s[1], s[2], s[3])
           cm == stored.cm
           response == Shape(built, rq.unit, rq.days)
           h == Elapsed(hist, cache_manager, t2)
       IN  /\ now' = t2
           /\ stored.raised => s[3] = s[2]
           /\ pc' = [pc EXCEPT ![r] = "done"]
           /\ req' = [req EXCEPT ![r] = NoReq]
           /\ IF ~InRange(rq.lat, rq.lon)
              THEN /\ t2 = now
                   /\ last' = Outcome("error", rq, NoResponse, NoEntry)
                   /\ fetch_locks' =
                        [fetch_locks EXCEPT ![lk] = release_on_exception(@)]
                   /\ hist' = [hist EXCEPT !.fails[rq.key] = @ + 1]
                   /\ UNCHANGED cache_manager
              ELSE IF stored.raised
              THEN /\ cache_manager' = cm
                   /\ last' = Outcome("key_error", rq, NoResponse, NoEntry)
                   /\ fetch_locks' =
                        [fetch_locks EXCEPT ![lk] = release_on_exception(@)]
                   /\ hist' = h
              ELSE /\ cache_manager' =
                        [cm EXCEPT !.cache[rq.key].data = response]
                   /\ last' = Outcome("fresh", rq, response, cm.cache[rq.key])
                   /\ fetch_locks' = [fetch_locks EXCEPT ![lk] = release(@)]
                   /\ hist' = [Inserted(h, cache_manager, cm, t2) EXCEPT
                                 !.stored = @ \cup {rq.key},
                                 !.ref[rq.key] = RefSet(@, now, s[1], s[3]),
                                 !.zone[rq.key] = rq.tz]
    /\ UNCHANGED <<call, location_service>>

\* The upstream call raises httpx.HTTPError (transport error, timeout,
\* non-2xx answer): lines 103-123.
FetchHttpError(r) ==
    /\ pc[r] = "fetching"
    /\ LET rq == req[r]
           lk == lock_key_of(rq.key)
       IN  /\ IF get_stale(cache_manager, rq.key)
              THEN LET stale_entry == cache_manager.stale_cache[rq.key]
                       response ==
                           Shape(serve_stale(stale_entry), rq.unit, rq.days)
                   IN  /\ cache_manager' =
                            [cache_manager EXCEPT
                                !.stale_cache[rq.key].data = response]
                       /\ last' = Outcome("stale", rq, response, stale_entry)
                       /\ fetch_locks' =
                            [fetch_locks EXCEPT ![lk] = release(@)]
              ELSE /\ last' = Outcome("unavailable", rq, NoResponse, NoEntry)
                   /\ fetch_locks' =
                        [fetch_locks EXCEPT ![lk] = release_on_exception(@)]
                   /\ UNCHANGED cache_manager
           /\ hist' = [hist EXCEPT !.fails[rq.key] = @ + 1]
    /\ pc' = [pc EXCEPT ![r] = "done"]
    /\ req' = [req EXCEPT ![r] = NoReq]
    /\ UNCHANGED <<now, call, location_service>>

\* The upstream call, or the processing of its answer, raises an Exception
\* that is no HTTPError (a payload that is no JSON or fails validation):
\* nothing in get_forecast catches it.
FetchOtherError(r) ==
    /\ pc[r] = "fetching"
    /\ LET rq == req[r]
           lk == lock_key_of(rq.key)
       IN  /\ last' = Outcome("error", rq, NoResponse, NoEntry)
           /\ fetch_locks' =
                [fetch_locks EXCEPT ![lk] = release_on_exception(@)]
           /\ hist' = [hist EXCEPT !.fails[rq.key] = @ + 1]
    /\ pc' = [pc EXCEPT ![r] = "done"]
    /\ req' = [req EXCEPT ![r] = NoReq]
    /\ UNCHANGED <<now, cache_manager, call, location_service>>

\* The task of the request is cancelled while it awaits the upstream call
\* (the client went away): asyncio.CancelledError is raised at line 102.
\* It is a BaseException, so neither `except httpx.HTTPError` nor the
\* `except Exception` of a route runs; `async with` releases the lock, and
\* the request gets no answer.  Between task.cancel() and the run of the
\* task in which the exception is raised the call still holds the lock, as
\* it does while the upstream call is under way: cancel() changes nothing
\* that another call can see, and the step is the run of the task.
FetchCancelled(r) ==
    /\ pc[r] = "fetching"
    /\ LET rq == req[r]
           lk == lock_key_of(rq.key)
       IN  /\ last' = Outcome("cancelled", rq, NoResponse, NoEntry)
           /\ fetch_locks' =
                [fetch_locks EXCEPT ![lk] = release_on_exception(@)]
           /\ hist' = [hist EXCEPT !.fails[rq.key] = @ + 1]
    /\ pc' = [pc EXCEPT ![r] = "done"]
    /\ req' = [req EXCEPT ![r] = NoReq]
    /\ UNCHANGED <<now, cache_manager, call, location_service>>

\* task.cancel() on the task of r while it waits in Lock.acquire: a
\* pending future is cancelled; for a future that has its result already
\* the task is marked to be cancelled when it next runs.  The future stays
\* in the queue of the lock.
cancel_waiter(lock, r) ==
    LET w == lock.waiters
    IN  [lock EXCEPT !.waiters =
           [i \in 1..Len(w) |->
              IF w[i].task # r THEN w[i]
              ELSE IF w[i].fut = "pending"
              THEN [w[i] EXCEPT !.fut = "cancelled"]
              ELSE [w[i] EXCEPT !.must_cancel = TRUE]]]

\* The task of the request is cancelled while it waits for the lock of its
\* key (line 84).  The call stays where it is until its task runs.
CancelWaiting(r) ==
    /\ pc[r] = "waitlock"
    /\ LET lk == lock_key_of(req[r].key)
           lock == fetch_locks[lk]
       IN  /\ \E i \in 1..Len(lock.waiters) :
                 /\ lock.waiters[i].task = r
                 /\ lock.waiters[i].fut # "cancelled"
                 /\ ~lock.waiters[i].must_cancel
           /\ fetch_locks' = [fetch_locks EXCEPT ![lk] = cancel_waiter(@, r)]
    /\ UNCHANGED <<now, cache_manager, pc, req, last, hist, call,
                 location_service>>

unwind_waiter_wakes_nobody(lock, r) == leave(lock, r)

\* Lock.acquire when CancelledError is raised at `await fut`: the future
\* leaves the queue, and when the lock is free the first waiter is woken
\* (`if not self._locked: self._wake_up_first()`)
unwind_waiter(lock, r) ==
    IF lock.locked THEN leave(lock, r) ELSE _wake_up_first(leave(lock, r))

\* The task of a call that was cancelled while it waited runs:
\* CancelledError is raised inside Lock.acquire (line 84), the call leaves
\* the waiters of the lock without having taken it, and the request gets
\* no answer.  It has made no upstream call.
WaitCancelled(r) ==
    /\ pc[r] = "waitlock"
    /\ LET rq == req[r]
           lk == lock_key_of(rq.key)
           lock == fetch_locks[lk]
       IN  /\ \E i \in 1..Len(lock.waiters) :
                 /\ lock.waiters[i].task = r
                 /\ lock.waiters[i].fut = "cancelled"
                       \/ lock.waiters[i].must_cancel
           /\ last' = Outcome("cancelled", rq, NoResponse, NoEntry)
           /\ fetch_locks' = [fetch_locks EXCEPT ![lk] = unwind_waiter(@, r)]
    /\ pc' = [pc EXCEPT ![r] = "done"]
    /\ req' = [req EXCEPT ![r] = NoReq]
    /\ UNCHANGED <<now, cache_manager, hist, call, location_service>>

\* Time passes; live entries whose time has come expire.
Tick ==
    /\ now < 1 + MaxTicks * TickSeconds
    /\ now' = now + TickSeconds
    /\ hist' = Elapsed(hist, cache_manager, now + TickSeconds)
    /\ UNCHANGED <<cache_manager, fetch_locks, pc, req, last, call,
                 location_service>>

\* cache_manager.set called directly (the cache manager is a public,
\* global object; get_forecast is its only caller inside the service).
\* The clock is left at the last reading that set made of it.
CacheSet(c, timeseries) ==
    /\ hist.puts < MaxPuts
    /\ LET lat == RoundCoord(c[1])
           lon == RoundCoord(c[2])
           readings == _process_timeseries(timeseries, lat, lon, "none")
           data == ForecastResponse(lat, lon, readings, Len(readings))
           key == generate_key(lat, lon)
       IN  \E s \in SetReads :
              LET stored == set(cache_manager, key, data, now, s[1], s[2],
                                s[3])
                  h == Elapsed([hist EXCEPT !.puts = @ + 1], cache_manager,
                               s[3])
              IN  /\ now' = s[3]
                  /\ stored.raised => s[3] = s[2]
                  /\ cache_manager' = stored.cm
                  /\ hist' = IF stored.raised THEN h
                             ELSE [Inserted(h, cache_manager, stored.cm,
                                            s[3]) EXCEPT
                                     !.ref[key] = RefSet(@, now, s[1], s[3]),
                                     !.zone[key] = "none"]
    /\ UNCHANGED <<fetch_locks, pc, req, last, call, location_service>>

\* cache_manager.get called directly: the entry returned is the live one.
CacheGet(c) ==
    /\ hist.gets < MaxGets
    /\ LET key == KeyOfCoord(c)
       IN  \E t2 \in ClockReads(cache_manager, key) :
              LET g == get(cache_manager, key, now, t2)
                  h == Elapsed([hist EXCEPT !.gets = @ + 1, !.lookups = @ + 1],
                               cache_manager, t2)
              IN  /\ now' = t2
                  /\ cache_manager' = g.cm
                  /\ call' = [op |-> "get", arg |-> key,
                              result |-> [found |-> g.found,
                                          entry |-> IF g.found
                                                    THEN g.cm.cache[key]
                                                    ELSE NoEntry,
                                          raised |-> g.raised],
                              done |-> TRUE]
                  /\ hist' = IF g.raised THEN [h EXCEPT !.raised = @ + 1]
                             ELSE h
    /\ UNCHANGED <<fetch_locks, pc, req, last, location_service>>

\* cache_manager.get_stale called directly
CacheGetStale(c) ==
    /\ hist.gets < MaxGets
    /\ LET key == KeyOfCoord(c)
           found == get_stale(cache_manager, key)
       IN  call' = [op |-> "get_stale", arg |-> key,
                    result |-> [found |-> found,
                                entry |-> IF found
                                          THEN cache_manager.stale_cache[key]
                                          ELSE NoEntry,
                                raised |-> FALSE],
                    done |-> TRUE]
    /\ hist' = [hist EXCEPT !.gets = @ + 1]
    /\ UNCHANGED <<now, cache_manager, fetch_locks, pc, req, last,
                 location_service>>

\* cache_manager.get_statistics called directly: len(self.cache) drops
\* the expired items from the live table
CacheStatistics ==
    /\ hist.gets < MaxGets
    /\ call' = [op |-> "get_statistics", arg |-> <<>>,
                result |-> get_statistics(cache_manager, now), done |-> TRUE]
    /\ cache_manager' = get_size(cache_manager, now).cm
    /\ hist' = [hist EXCEPT !.gets = @ + 1]
    /\ UNCHANGED <<now, fetch_locks, pc, req, last, location_service>>

\* The steps of the service for callers that draw their arguments from the
\* given sets and an upstream that answers with one of the given timeseries.
Steps(coords, units, day_limits, tzs, answers) ==
    \/ \E r \in Requests, c \in coords, unit \in units, days \in day_limits,
          tz \in tzs : Start(r, c, unit, days, tz)
    \/ \E r \in Requests : Resume(r)
    \/ \E r \in Requests, timeseries \in answers : FetchOk(r, timeseries)
    \/ \E r \in Requests : FetchHttpError(r)
    \/ \E r \in Requests : FetchOtherError(r)
    \/ \E r \in Requests : FetchCancelled(r)
    \/ \E r \in Requests : CancelWaiting(r)
    \/ \E r \in Requests : WaitCancelled(r)
    \/ Tick

Belgrade == <<4481254, 2046123>>
Oslo == <<5991390, 1075220>>

Next == Steps({Belgrade, Oslo}, Units, DayLimits, {"none"}, {<<>>, TS_TwoDays})

Spec == Init /\ [][Next]_vars

\* The service for callers that take the defaults (Celsius, no day limit,
\* no timezone): what is left is the interleaving of the calls for the two
\* keys, the answers and failures of the upstream, and the clock.
NextHerd == Steps(Coords, {"celsius"}, {0}, {"none"}, {<<>>, TS_TwoDays})

SpecHerd == Init /\ [][NextHerd]_vars

\* The service together with direct users of the cache manager.
NextCache ==
    \/ Steps({Belgrade}, {"fahrenheit"}, {0}, {"none"}, {TS_TwoDays})
    \/ CacheSet(Belgrade, TS_Unsorted)

SpecCache == Init /\ [][NextCache]_vars

\* The service for callers at one place, in either unit, with and without a
\* day limit, and an upstream that has samples for two days or none.
NextOneKey == Steps({Belgrade}, Units, DayLimits, {"none"}, {<<>>, TS_TwoDays})

SpecOneKey == Init /\ [][NextOneKey]_vars

\* The service for callers at one place who ask for at most one, two or
\* three days of a forecast that has two.
NextDays == Steps({Belgrade}, {"celsius"}, {1, 2, 3}, {"none"}, {TS_TwoDays})

SpecDays == Init /\ [][NextDays]_vars

\* The cache manager used directly: entries are set for one key, looked up
\* for that key and for one that is never set, and the clock moves.
NextCacheOps ==
    \/ CacheSet(Belgrade, TS_TwoDays)
    \/ \E c \in {Belgrade, Oslo} : CacheGet(c)
    \/ \E c \in {Belgrade, Oslo} : CacheGetStale(c)
    \/ CacheStatistics
    \/ Tick

SpecCacheOps == Init /\ [][NextCacheOps]_vars

\* The service for one place together with direct lookups of its key.
NextProbe ==
    \/ Steps({Belgrade}, {"celsius"}, {0}, {"none"}, {TS_TwoDays})
    \/ CacheGet(Belgrade)

SpecProbe == Init /\ [][NextProbe]_vars

\* ---- _process_timeseries called directly

InitSampling ==
    /\ ServiceInit
    /\ call \in { [op |-> "_process_timeseries",
                   arg |-> [timeseries |-> ts, lat |-> RoundCoord(Belgrade[1]),
                            lon |-> RoundCoord(Belgrade[2]), tz |-> tz],
                   result |-> <<>>, done |-> FALSE] :
                  ts \in SeqsUpTo(Samples, MaxSamples), tz \in TzOverrides }

Sample ==
    /\ call.op = "_process_timeseries"
    /\ ~call.done
    /\ call' = [call EXCEPT
                  !.result = _process_timeseries(call.arg.timeseries,
                                 call.arg.lat, call.arg.lon, call.arg.tz),
                  !.done = TRUE]
    /\ UNCHANGED <<now, cache_manager, fetch_locks, pc, req, last, hist,
                 location_service>>

NextSampling == Sample

SpecSampling == InitSampling /\ [][NextSampling]_vars

\* ---- ForecastResponse constructed directly

\* TemperatureReading values: one of day 0, two of day 1, one of day 2.
Readings ==
    { [date |-> 0, temperature |-> Deg(1), unit |-> "celsius",
       time |-> 14 * 3600, source_time |-> 13 * 3600],
      [date |-> 1, temperature |-> Deg(2), unit |-> "celsius",
       time |-> 14 * 3600, source_time |-> 86400 + 13 * 3600],
      [date |-> 1, temperature |-> Deg(3), unit |-> "celsius",
       time |-> 15 * 3600, source_time |-> 86400 + 14 * 3600],
      [date |-> 2, temperature |-> Deg(4), unit |-> "celsius",
       time |-> 14 * 3600, source_time |-> 2 * 86400 + 13 * 3600] }

\* The days_returned that a caller of the constructor supplies for a list
\* of readings: its length, none, or a wrong count
SuppliedDays(f) == {Len(f), 0, 999}

\* A behaviour is one direct construction, or a run of the service.
InitModels ==
    /\ ServiceInit
    /\ call \in { [op |-> "ForecastResponse",
                   arg |-> [forecasts |-> f, days_returned |-> d],
                   result |-> NoResponse, done |-> FALSE] :
                  f \in SeqsUpTo(Readings, MaxReadings),
                  d \in UNION { SuppliedDays(g) :
                                 g \in SeqsUpTo(Readings, MaxReadings) } }
            \cup { NoCall }

Construct ==
    /\ call.op = "ForecastResponse"
    /\ ~call.done
    /\ call' = [call EXCEPT
                  !.result = ForecastResponse(RoundCoord(Belgrade[1]),
                                 RoundCoord(Belgrade[2]), call.arg.forecasts,
                                 call.arg.days_returned),
                  !.done = TRUE]
    /\ UNCHANGED <<now, cache_manager, fetch_locks, pc, req, last, hist,
                 location_service>>

\* The model classes used directly, and by the service for callers who
\* ask for Fahrenheit in Tokyo time, all days or one, while the upstream
\* answers with samples out of order.
NextModels ==
    \/ Construct
    \/ /\ call = NoCall
       /\ Steps({Belgrade}, {"fahrenheit"}, {0, 1}, {"Asia/Tokyo"},
                {TS_Unsorted})

SpecModels == InitModels /\ [][NextModels]_vars

\* The service for callers on either side of the Greenwich meridian.
NextMeridian ==
    Steps({GreenwichEast, GreenwichWest}, {"celsius"}, {0}, {"none"},
          {TS_TwoDays})

SpecMeridian == Init /\ [][NextMeridian]_vars

\* ---- a service configured with a small live table

\* config.py line 18: CACHE_MAX_SIZE is read from the environment
CacheSizes == {1, CACHE_MAX_SIZE}

InitCapacity ==
    /\ \E max_size \in CacheSizes : ServiceInitWith(max_size)
    /\ call = NoCall

NextCapacity ==
    \/ \E c \in {Belgrade, Oslo} : CacheSet(c, TS_TwoDays)
    \/ \E c \in {Belgrade, Oslo} : CacheGet(c)
    \/ CacheStatistics
    \/ Tick

SpecCapacity == InitCapacity /\ [][NextCapacity]_vars

\* The service with a live table of one item (CACHE_MAX_SIZE=1 in the
\* environment), for callers at two places: what is stored for one place
\* pushes out the entry of the other.
InitSmallTable ==
    /\ ServiceInitWith(1)
    /\ call = NoCall

SpecSmallTable == InitSmallTable /\ [][NextHerd]_vars

\* The service for two places, called concurrently while the upstream
\* answers, together with direct sets of the key of one of them.
NextShared ==
    \/ \E r \in Requests, c \in {Belgrade, Oslo} :
          Start(r, c, "celsius", 0, "none")
    \/ \E r \in Requests : Resume(r)
    \/ \E r \in Requests : FetchOk(r, TS_TwoDays)
    \/ \E r \in Requests : CancelWaiting(r)
    \/ \E r \in Requests : WaitCancelled(r)
    \/ CacheSet(Belgrade, TS_TwoDays)
    \/ Tick

SpecShared == Init /\ [][NextShared]_vars

\* ---- health check (app/services/yrno_client.py, health_service.py)

\* What the probe request of check_availability meets: an answer with a
\* status code, or an exception of httpx (no connection, timeout).
ProbeAnswers == {"200", "503", "ConnectError", "ReadTimeout"}

IsStatus(answer) == answer \in {"200", "503"}

\* YrNoClient.check_availability: the request is awaited outside any try
\* block; value is what it returns, raised whether an exception leaves it.
check_availability(answer) ==
    IF IsStatus(answer)
    THEN [raised |-> FALSE, value |-> answer = "200"]
    ELSE [raised |-> TRUE, value |-> FALSE]

\* HealthService._check_yrno
_check_yrno(answer) ==
    LET available == check_availability(answer)
    IN  IF available.raised THEN FALSE ELSE available.value

\* HealthService.check_health, without the version; startup_time is the
\* model's first instant.  The clock is read twice once the probe has
\* answered: t by datetime.utcnow() (line 32), for the uptime, and t2 by
\* len(self.cache) inside get_statistics (line 35).  The call leaves the
\* cache manager as get_statistics, that is get_size, leaves it.
check_health(answer, cm, t, t2) ==
    LET yrno_available == _check_yrno(answer)
        cache_stats == get_statistics(cm, t2)
    IN  [status |-> IF yrno_available THEN "healthy" ELSE "degraded",
         uptime_seconds |-> t - 1,
         yrno_available |-> yrno_available,
         cache_size |-> cache_stats.size,
         cache_hit_rate |-> cache_stats.hit_rate]

\* yrno_client.check_availability called directly
CheckAvailability(answer) ==
    /\ call' = [op |-> "check_availability", arg |-> answer,
                result |-> check_availability(answer), done |-> TRUE]
    /\ UNCHANGED <<now, cache_manager, fetch_locks, pc, req, last, hist,
                 location_service>>

\* health_service.check_health is called and the probe meets answer;
\* len(self.cache) inside get_statistics drops the items expired at its
\* reading of the clock, which is the last one of the call
CheckHealth(answer) ==
    /\ \E t2 \in Later :
          /\ call' = [op |-> "check_health", arg |-> answer,
                      result |-> check_health(answer, cache_manager, now, t2),
                      done |-> TRUE]
          /\ cache_manager' = get_size(cache_manager, t2).cm
          /\ now' = t2
          /\ hist' = Elapsed(hist, cache_manager, t2)
    /\ UNCHANGED <<fetch_locks, pc, req, last, location_service>>

\* The service for one place together with health checks.
NextHealth ==
    \/ Steps({Belgrade}, {"celsius"}, {0}, {"none"}, {TS_TwoDays})
    \/ \E answer \in ProbeAnswers : CheckAvailability(answer)
    \/ \E answer \in ProbeAnswers : CheckHealth(answer)

SpecHealth == Init /\ [][NextHealth]_vars

\* get_forecast called for Belgrade and for a point off the globe.
NextRange ==
    Steps({Belgrade, NorthOfPole}, {"celsius"}, {0}, {"none"}, {TS_TwoDays})

SpecRange == Init /\ [][NextRange]_vars

\* ---- the /forecast route (app/api/routes.py)

\* settings.BELGRADE_LAT, settings.BELGRADE_LON (units of 0.00001 degree)
BelgradeDefault == <<4481250, 2046120>>

\* The location part of a request: the coordinates given (none, the
\* latitude only, or both) and the location name ("" when not given)
Queries ==
    { [coords |-> Belgrade, name |-> ""], [coords |-> <<>>, name |-> ""],
      [coords |-> NorthOfPole, name |-> ""],
      [coords |-> <<Belgrade[1]>>, name |-> ""],
      [coords |-> <<NorthOfPole[1]>>, name |-> "Oslo"] }
        \cup { [coords |-> <<>>, name |-> n] : n \in LocationNames \cup {"X"} }

\* The number of characters of a name
NameLength(location_name) ==
    CASE location_name = "" -> 0
      [] location_name = "X" -> 1
      [] location_name \in {"Oslo", "oslo"} -> 4
      [] location_name = " oslo " -> 6
      [] location_name = "Atlantis" -> 8

\* lines 52-69: lat within -90..90 and lon within -180..180 when given,
\* location_name of 2 to 200 characters when given
QueryValid(q) ==
    /\ Len(q.coords) >= 1 => (-9000000 <= q.coords[1] /\ q.coords[1] <= 9000000)
    /\ Len(q.coords) >= 2 =>
          (-18000000 <= q.coords[2] /\ q.coords[2] <= 18000000)
    /\ q.name # "" => (2 <= NameLength(q.name) /\ NameLength(q.name) <= 200)

\* lines 70-75: days within 1..10 when given (0 stands for None)
DaysValid(days) == days = 0 \/ (1 <= days /\ days <= 10)

status_code_always_200(path) == 200

\* The status of the answer of GET /forecast, by the way the request
\* ended; 0 when there is no answer (the request is under way, or its task
\* was cancelled).  `except Exception` (lines 115 and 150) turns every
\* exception that leaves get_forecast, a KeyError too, into 504.
status_code(path) ==
    CASE path \in {"hit", "hit_locked", "fresh", "stale"} -> 200
      [] path \in {"unavailable", "error", "key_error"} -> 504
      [] path = "not_found" -> 404
      [] path = "bad_request" -> 400
      [] path = "invalid" -> 422
      [] path \in {"none", "cancelled"} -> 0

Reject_after_lookup(r, path) ==
    /\ last' = Outcome(path, [NoReq EXCEPT !.via = "api"], NoResponse,
                       NoEntry)
    /\ pc' = [pc EXCEPT ![r] = "done"]
    /\ cache_manager' = get(cache_manager, NoReq.key, now, now).cm
    /\ UNCHANGED <<now, fetch_locks, req, hist, call>>

\* The route answers with an error before get_forecast is called
Reject(r, path) ==
    /\ last' = Outcome(path, [NoReq EXCEPT !.via = "api"], NoResponse,
                       NoEntry)
    /\ pc' = [pc EXCEPT ![r] = "done"]
    /\ UNCHANGED <<now, cache_manager, fetch_locks, req, hist, call>>

\* GET /forecast arrives; answer is what the geocoder does if it is asked.
\* FastAPI refuses a query that fails the declared constraints before the
\* handler runs.  geocode does not suspend (the geocoder is called
\* synchronously), so the handler runs on into get_forecast.
Forecast(r, q, unit, days, tz, answer) ==
    LET defaulted == q.coords = <<>> /\ q.name = ""
        coords == IF defaulted THEN BelgradeDefault ELSE q.coords
        location_name == IF defaulted THEN "Belgrade, Serbia" ELSE q.name
    IN  /\ pc[r] = "idle"
        /\ \A p \in Requests : p < r => pc[p] # "idle"
        /\ IF ~(QueryValid(q) /\ DaysValid(days))
           THEN Reject(r, "invalid") /\ UNCHANGED location_service
           ELSE IF Len(coords) = 2
           THEN /\ GetForecast(r, RoundCoord(coords[1]), RoundCoord(coords[2]),
                               unit, days, tz, "api")
                /\ UNCHANGED location_service
           ELSE IF location_name # ""
           THEN /\ answer \in GeocoderAnswers(location_name)
                /\ LET ls == geocode(location_service, location_name, answer,
                                     now)
                   IN  /\ location_service' = ls
                       /\ IF ls.returned = None
                          THEN Reject(r, "not_found")
                          ELSE GetForecast(r,
                                           truncate_coordinates(ls.returned[1]),
                                           truncate_coordinates(ls.returned[2]),
                                           unit, days, tz, "api")
           ELSE Reject(r, "bad_request") /\ UNCHANGED location_service

\* ---- the form of the web interface (app/api/web_routes.py)

\* str.strip of a name
Strip(location_name) ==
    IF location_name = " oslo " THEN "oslo" ELSE location_name

\* line 54: any unit but "celsius" is Fahrenheit
temp_unit(unit) == IF unit = "celsius" THEN "celsius" ELSE "fahrenheit"

\* The status of the answer of POST /forecast: every answer is the page
\* forecast.html (with the forecast or with an error message), sent with
\* the default status; 0 when there is no answer
web_status_code(path) == IF path \in {"none", "cancelled"} THEN 0 ELSE 200

\* The page shows an error message instead of a forecast
page_error(path) == path \notin {"hit", "hit_locked", "fresh", "stale"}

\* The handler answers with an error page before get_forecast is called
WebReject(r, path) ==
    /\ last' = Outcome(path, [NoReq EXCEPT !.via = "web"], NoResponse, NoEntry)
    /\ pc' = [pc EXCEPT ![r] = "done"]
    /\ UNCHANGED <<now, cache_manager, fetch_locks, req, hist, call>>

\* What the form sends: the fields latitude and longitude (none, the
\* latitude only, or both), location_name ("" when empty) and whether the
\* number fields hold numbers
Forms ==
    { [coords |-> <<>>, name |-> n, numeric |-> TRUE] : n \in {"", " oslo "} }
      \cup { [coords |-> <<NorthOfPole[1]>>, name |-> n, numeric |-> TRUE] :
               n \in {"", "X"} }
      \cup { [coords |-> NorthOfPole, name |-> "", numeric |-> TRUE],
             [coords |-> Belgrade, name |-> "", numeric |-> FALSE] }

\* POST /forecast arrives (lines 38-160); days is the number in the field
\* days (0: empty, or "0", which `if days:` takes for no limit), answer is
\* what the geocoder does if it is asked.  No field is checked before the
\* handler runs.  float() or int() of a field that is no number raises
\* ValueError, and `except Exception` (line 152) answers with the error
\* page, as it does for every exception that leaves get_forecast.
WebForecast(r, f, unit, days, answer) ==
    LET location_name == Strip(f.name)
        defaulted == location_name = "" /\ f.coords = <<>>
        coords == IF defaulted THEN BelgradeDefault ELSE f.coords
    IN  /\ pc[r] = "idle"
        /\ \A p \in Requests : p < r => pc[p] # "idle"
        /\ IF ~f.numeric
           THEN WebReject(r, "error") /\ UNCHANGED location_service
           ELSE IF Len(coords) = 2
           THEN /\ IF QueryValid([coords |-> coords, name |-> ""])
                   THEN GetForecast(r, RoundCoord(coords[1]),
                                    RoundCoord(coords[2]), temp_unit(unit),
                                    days, "none", "web")
                   ELSE WebReject(r, "invalid")
                /\ UNCHANGED location_service
           ELSE IF location_name # ""
           THEN /\ answer \in GeocoderAnswers(location_name)
                /\ LET ls == geocode(location_service, location_name, answer,
                                     now)
                   IN  /\ location_service' = ls
                       /\ IF ls.returned = None
                          THEN WebReject(r, "not_found")
                          ELSE GetForecast(r,
                                           truncate_coordinates(ls.returned[1]),
                                           truncate_coordinates(ls.returned[2]),
                                           temp_unit(unit), days, "none", "web")
           ELSE WebReject(r, "bad_request") /\ UNCHANGED location_service

\* location_service.geocode called directly
Geocode(location_name, answer) ==
    /\ location_service.ncalls < MaxGeocodes
    /\ answer \in GeocoderAnswers(location_name)
    /\ location_service' = geocode(location_service, location_name, answer, now)
    /\ call' = [op |-> "geocode", arg |-> location_name,
                result |-> location_service'.returned, done |-> TRUE]
    /\ UNCHANGED <<now, cache_manager, fetch_locks, pc, req, last, hist>>

\* What follows the entry of a call into get_forecast
Continue(answers) ==
    \/ \E r \in Requests : Resume(r)
    \/ \E r \in Requests, timeseries \in answers : FetchOk(r, timeseries)
    \/ \E r \in Requests : FetchHttpError(r)
    \/ \E r \in Requests : FetchOtherError(r)
    \/ \E r \in Requests : FetchCancelled(r)
    \/ \E r \in Requests : CancelWaiting(r)
    \/ \E r \in Requests : WaitCancelled(r)

\* Requests to the route and to the form of the web interface, by
\* coordinates and by name: to the route with no day limit or one that it
\* refuses, to the form with a day limit below zero and a unit that is
\* not one of the two.
NextRoute ==
    \/ \E r \in Requests, q \in Queries, days \in {0, 11},
          answer \in UNION { GeocoderAnswers(n) : n \in LocationNames } :
          Forecast(r, q, "celsius", days, "none", answer)
    \/ \E r \in Requests, f \in Forms,
          answer \in UNION { GeocoderAnswers(n) : n \in LocationNames } :
          WebForecast(r, f, "kelvin", -1, answer)
    \/ Continue({TS_TwoDays})

SpecRoute == Init /\ [][NextRoute]_vars

\* The location service called directly, while the clock moves.
NextGeocode ==
    \/ \E n \in LocationNames :
          \E answer \in GeocoderAnswers(n) : Geocode(n, answer)
    \/ Tick

SpecGeocode == Init /\ [][NextGeocode]_vars

\* Requests to the route for one place, with direct sets of its key (so
\* that there are stale entries).
NextGateway ==
    \/ \E r \in Requests, unit \in {"celsius"} :
          Forecast(r, [coords |-> Belgrade, name |-> ""], unit, 0, "none",
                   "none")
    \/ CacheSet(Belgrade, TS_TwoDays)
    \/ Continue({TS_TwoDays})
    \/ Tick

SpecGateway == Init /\ [][NextGateway]_vars

\* ---- to_local_time called directly

Points == {Belgrade, Oslo, NewYork, GreenwichEast, MidAtlantic}

InitTimezone ==
    /\ ServiceInit
    /\ call \in { [op |-> "to_local_time",
                   arg |-> [utc_time |-> s.time, lat |-> RoundCoord(c[1]),
                            lon |-> RoundCoord(c[2]), tz |-> tz],
                   result |-> [raised |-> FALSE, zone |-> "", local_time |-> 0],
                   done |-> FALSE] :
                  s \in Samples, c \in Points, tz \in TzOverrides }

\* to_local_time runs: the zone that get_timezone resolves (line 69) and
\* the local time (line 75), or the exception that leaves get_timezone
ToLocalTime ==
    /\ call.op = "to_local_time"
    /\ ~call.done
    /\ LET a == call.arg
           raised == get_timezone_raises(a.lat, a.lon, a.tz)
       IN  call' = [call EXCEPT
                      !.result =
                         IF raised
                         THEN [raised |-> TRUE, zone |-> "", local_time |-> 0]
                         ELSE [raised |-> FALSE,
                               zone |-> get_timezone(a.lat, a.lon, a.tz),
                               local_time |-> to_local_time(a.utc_time, a.lat,
                                                            a.lon, a.tz)],
                      !.done = TRUE]
    /\ UNCHANGED <<now, cache_manager, fetch_locks, pc, req, last, hist,
                   location_service>>

NextTimezone == ToLocalTime

SpecTimezone == InitTimezone /\ [][NextTimezone]_vars

\* ---- the service with an upstream that answers and a fair event loop

\* The upstream call of r ends: fetch_forecast returns or raises (the
\* request has a timeout, yrno_client.py lines 72-77), or the task is
\* cancelled while it waits
FetchReturns(r) ==
    \/ \E timeseries \in {<<>>, TS_TwoDays} : FetchOk(r, timeseries)
    \/ FetchHttpError(r)
    \/ FetchOtherError(r)
    \/ FetchCancelled(r)

\* Every upstream call ends, and the task of a waiter whose future is
\* done runs (the event loop runs every task that is ready): it takes the
\* lock when it was woken, and leaves with CancelledError when it was
\* cancelled.
Fairness ==
    \A r \in Requests : /\ WF_vars(FetchReturns(r))
                         /\ WF_vars(Resume(r) \/ WaitCancelled(r))

\* Calls for two places, answered or failed by the upstream.
NextLive ==
    \/ \E r \in Requests, c \in {Belgrade, Oslo} :
          Start(r, c, "celsius", 0, "none")
    \/ \E r \in Requests : Resume(r)
    \/ \E r \in Requests : FetchReturns(r)
    \/ \E r \in Requests : CancelWaiting(r)
    \/ \E r \in Requests : WaitCancelled(r)

SpecLive == Init /\ [][NextLive]_vars /\ Fairness

\* ---- the exceptions of the upstream call

\* What can leave fetch_forecast (yrno_client.py lines 72-86): the request
\* fails to connect or times out, raise_for_status refuses a non-2xx
\* answer, response.json() cannot parse the body, or a timeseries entry
\* does not validate (an entry without air_temperature); or the task is
\* cancelled while the request is awaited.
Exceptions ==
    {"ConnectError", "ReadTimeout", "HTTPStatusError", "JSONDecodeError",
     "ValidationError", "CancelledError"}

IsHTTPError_any(exc) == TRUE

\* line 103, `except httpx.HTTPError`: the classes of httpx that derive
\* from HTTPError (RequestError and its transport and timeout subclasses,
\* HTTPStatusError)
IsHTTPError(exc) == exc \in {"ConnectError", "ReadTimeout", "HTTPStatusError"}

\* The upstream call of r raises exc: the handler of lines 103-123 runs for
\* an HTTPError, and nothing catches any other exception.
FetchRaises(r, exc) ==
    IF IsHTTPError(exc) THEN FetchHttpError(r)
    ELSE IF exc = "CancelledError" THEN FetchCancelled(r)
    ELSE FetchOtherError(r)

\* Calls for two places and an upstream that answers or raises, together
\* with direct sets of the key of one of them (so that there are stale
\* entries).
NextFailures ==
    \/ \E r \in Requests, c \in {Belgrade, Oslo} :
          Start(r, c, "celsius", 0, "none")
    \/ \E r \in Requests : Resume(r)
    \/ \E r \in Requests : FetchOk(r, TS_TwoDays)
    \/ \E r \in Requests, exc \in Exceptions : FetchRaises(r, exc)
    \/ \E r \in Requests : CancelWaiting(r)
    \/ \E r \in Requests : WaitCancelled(r)
    \/ CacheSet(Belgrade, TS_TwoDays)

SpecFailures == Init /\ [][NextFailures]_vars

\* The service for callers at one place who give a timezone override or
\* none, while the upstream answers with samples of which another is the
\* closest to the target hour in Tokyo than in Belgrade.
NextZones ==
    Steps({Belgrade}, {"celsius"}, {0}, {"none", "Asia/Tokyo"}, {TS_Unsorted})

SpecZones == Init /\ [][NextZones]_vars

\* ------------------------------------------------------------------ claims

InFlight(k) == { q \in Requests : /\ pc[q] \in {"waitlock", "fetching"}
                                  /\ req[q].key = k }

Served == {"hit", "hit_locked", "fresh", "stale"}

\* C1 (as stated): the calls for one key that overlap in time (all but the
\* first started while another call for the key was in flight) make exactly
\* one upstream call in total, whatever the outcome of that call.
C1_OneFetchWhateverTheOutcome ==
    \A k \in Keys :
        (hist.nreq[k] >= 1 /\ hist.lone[k] <= 1) => hist.calls[k] = 1

\* C1 (amended): the calls for one key make at least one upstream call, and
\* one more only after an upstream call that failed, a stored entry that
\* expired or a stored entry that was pushed out of a full live table by
\* the entry of another key: exactly one when the call succeeds and its
\* entry stays live.
C1_OneFetchPerMissedGeneration ==
    \A k \in Keys :
        /\ hist.nreq[k] >= 1 => hist.calls[k] >= 1
        /\ hist.calls[k] <=
              1 + hist.fails[k] + hist.expiries[k] + hist.evictions[k]

\* Three overlapping calls for one key are all answered and the second and
\* third were served by the re-check: one upstream call was made.
C1_Witness ==
    /\ last.path = "hit_locked"
    /\ hist.nreq[last.key] = 3
    /\ hist.lone[last.key] = 1
    /\ hist.calls[last.key] = 1
    /\ InFlight(last.key) = {}

\* The future that call r awaits in Lock.acquire is done: it was given its
\* result by a release, or it was cancelled.  The event loop runs the task
\* of the call next time round.
Runnable(r) ==
    LET lock == fetch_locks[lock_key_of(req[r].key)]
    IN  \E i \in 1..Len(lock.waiters) :
            lock.waiters[i].task = r /\ lock.waiters[i].fut # "pending"

\* C2: a call is kept waiting only by calls for its own key: whenever a call
\* waits on a future that is still pending, another call for the same key
\* holds the lock or is ahead of it in the queue of the lock (woken or
\* cancelled, and not yet run).  Calls for other keys never hold it up.
C2_BlockedOnlyBySameKey ==
    \A r \in Requests :
        (pc[r] = "waitlock" /\ ~Runnable(r)) =>
            \E q \in InFlight(req[r].key) \ {r} :
                \/ pc[q] = "fetching"
                \/ \E i, j \in 1..Len(fetch_locks[lock_key_of(req[r].key)].waiters) :
                     LET w == fetch_locks[lock_key_of(req[r].key)].waiters
                     IN  i < j /\ w[i].task = q /\ w[j].task = r

\* A call for one key has fetched, stored and returned while a call for
\* another key still holds its lock and waits for the upstream.
C2_Witness ==
    /\ last.path = "fresh"
    /\ \E q \in Requests : pc[q] = "fetching" /\ req[q].key # last.key

\* C3 (as stated): every stored entry, live or stale, holds Celsius readings
\* with the temperatures computed when it was fetched.
C3_StoredEntriesStayCelsius ==
    LET Canonical(e) ==
            \A i \in 1..Len(e.data.forecasts) :
                /\ e.data.forecasts[i].unit = "celsius"
                /\ i <= Len(e.orig)
                /\ e.data.forecasts[i].temperature = e.orig[i].temperature
    IN  /\ \A k \in DOMAIN cache_manager.cache :
              Canonical(cache_manager.cache[k])
        /\ \A k \in DOMAIN cache_manager.stale_cache :
              Canonical(cache_manager.stale_cache[k])

\* C4 (as stated): once a key's forecast has been fetched and stored, a call
\* for the key whose upstream call fails is answered from that forecast: it
\* does not fail with upstream-unavailable.
C4_StaleAfterExpiry ==
    last.path = "unavailable" => last.key \notin hist.stored

\* C5: a call whose upstream call raised httpx.HTTPError ends with the stale
\* entry of its key when there is one (cached and stale set, cached_at the
\* entry's creation time, the entry's readings in the unit asked for), and
\* with the upstream-unavailable failure otherwise.
C5_StaleOrUnavailable ==
    [][ \A r \in Requests :
          (pc[r] = "fetching" /\ pc'[r] = "done"
              /\ last'.path \in {"stale", "unavailable"}) =>
            LET k == req[r].key
                stale == cache_manager.stale_cache
            IN  IF k \in DOMAIN stale
                THEN /\ last'.path = "stale"
                     /\ last'.resp.cached /\ last'.resp.stale
                     /\ last'.resp.cached_at = stale[k].created_at
                     /\ last'.resp.cached_at # NoTime
                     /\ Len(last'.resp.forecasts) = Len(stale[k].data.forecasts)
                     /\ \A i \in 1..Len(last'.resp.forecasts) :
                          /\ last'.resp.forecasts[i].date =
                                 stale[k].data.forecasts[i].date
                          /\ last'.resp.forecasts[i].source_time =
                                 stale[k].data.forecasts[i].source_time
                          /\ last'.resp.forecasts[i].temperature =
                                 convert_from_celsius(req[r].unit,
                                     stale[k].data.forecasts[i].temperature)
                ELSE /\ last'.path = "unavailable"
                     /\ last'.resp = NoResponse
      ]_vars

\* A call was answered from the stale slot after its upstream call failed.
C5_Witness ==
    /\ last.path = "stale"
    /\ last.resp.stale /\ last.resp.cached
    /\ last.resp.forecasts # <<>>
    /\ last.key \in DOMAIN cache_manager.stale_cache

\* C6 (as stated): a call answered at the first cache probe, asking for
\* Celsius and no day limit, returns the Celsius readings computed by the
\* call that fetched the entry, has cached set and calls no upstream.
C6_SecondCallSameCelsius ==
    (last.path = "hit" /\ last.unit = "celsius" /\ last.days = 0) =>
        /\ last.resp.forecasts = last.src.orig
        /\ last.resp.cached
        /\ last.fetches = 0

\* C7 (as stated): every answered call returns, for each reading, the
\* Celsius value computed from the upstream sample when Celsius is asked
\* for, and C * 9/5 + 32 of it when Fahrenheit is asked for.
C7_ReturnedTemperatures ==
    last.path \in Served =>
        \A i \in 1..Len(last.resp.forecasts) :
            /\ i <= Len(last.src.orig)
            /\ last.resp.forecasts[i].temperature =
                   convert_from_celsius(last.unit, last.src.orig[i].temperature)

\* C8 (as stated): a stored live entry keeps all the readings computed when
\* it was fetched, and a call answered from it with no day limit returns
\* them all.
C8_DayLimitLeavesEntry ==
    /\ \A k \in DOMAIN cache_manager.cache :
          LET e == cache_manager.cache[k]
          IN  /\ Len(e.data.forecasts) = Len(e.orig)
              /\ e.data.days_returned = Len(e.orig)
    /\ (last.path \in {"hit", "hit_locked"} /\ last.days = 0) =>
          Len(last.resp.forecasts) = Len(last.src.orig)

\* C9: a lock is taken exactly while a call for its key is between the
\* re-check and the end of the call: no call that waits, has not started
\* or has returned (by any path, a KeyError of the re-check or of the
\* store and a cancellation included) leaves a lock taken, and the
\* waiters of a lock are the calls waiting for that key, cancelled or not.
C9_LockHeldOnlyWhileFetching ==
    \A lk \in DOMAIN fetch_locks :
        /\ fetch_locks[lk].locked <=>
              \E r \in Requests :
                  pc[r] = "fetching" /\ lock_key_of(req[r].key) = lk
        /\ \A r \in Requests :
              (\E i \in 1..Len(fetch_locks[lk].waiters) :
                    fetch_locks[lk].waiters[i].task = r)
              <=> (pc[r] = "waitlock" /\ lock_key_of(req[r].key) = lk)

\* A call ended by an exception that nothing catches, and the lock of its
\* key is free again.
C9_Witness ==
    /\ last.path = "error"
    /\ lock_key_of(last.key) \in DOMAIN fetch_locks
    /\ ~fetch_locks[lock_key_of(last.key)].locked
    /\ InFlight(last.key) = {}

\* C10: no call makes more than one upstream call; a call whose upstream
\* call failed ends having made exactly one (a cancelled call has made one
\* when it was cancelled at the upstream call, none when it was cancelled
\* while it waited for the lock).
C10_AtMostOneFetchPerCall ==
    /\ \A r \in Requests :
          /\ req[r].fetches <= 1
          /\ pc[r] = "fetching" => req[r].fetches = 1
    /\ last.fetches <= 1
    /\ last.path \in {"stale", "unavailable", "error", "fresh"} =>
          last.fetches = 1
    /\ last.path = "cancelled" => last.fetches = last.misses - 1
    /\ \A k \in Keys : hist.calls[k] <= hist.nreq[k]

\* A call failed with upstream-unavailable after its single upstream call.
C10_Witness ==
    /\ last.path = "unavailable"
    /\ last.fetches = 1
    /\ hist.fails[last.key] = 1
    /\ hist.calls[last.key] = 1

\* C11: the flags of a response tell where it came from: cached and not
\* stale from the live table (first probe or re-check), cached and stale
\* from the stale slot, neither when freshly computed, whatever calls came
\* before.
C11_FlagsByOrigin ==
    /\ last.path \in {"hit", "hit_locked"} =>
          (last.resp.cached /\ ~last.resp.stale)
    /\ last.path = "stale" => (last.resp.cached /\ last.resp.stale)
    /\ last.path = "fresh" => (~last.resp.cached /\ ~last.resp.stale)

\* A call is answered from the live table while the stale slot of its key
\* holds a response that an earlier call was given as stale.
C11_Witness ==
    /\ last.path \in {"hit", "hit_locked"}
    /\ last.resp.cached /\ ~last.resp.stale
    /\ last.key \in DOMAIN cache_manager.stale_cache
    /\ cache_manager.stale_cache[last.key].data.stale

\* C16 (as stated): inputs whose rounded coordinates are equal numbers use
\* one cache key, so within the TTL the second call hits the entry the first
\* stored: the live table never holds two unexpired entries for equal
\* coordinates, and no call for a coordinate fetches while an entry for an
\* equal coordinate is live.  The coordinates of a response are the rounded
\* ones, those of its key.
C16_SameRoundedSameEntry ==
    /\ \A k1, k2 \in DOMAIN cache_manager.cache :
          LET d1 == cache_manager.cache[k1].data
              d2 == cache_manager.cache[k2].data
          IN  ( /\ Contains(cache_manager.cache, k1, now)
                /\ Contains(cache_manager.cache, k2, now)
                /\ d1.latitude.val = d2.latitude.val
                /\ d1.longitude.val = d2.longitude.val ) => k1 = k2
    /\ last.path \in Served =>
          last.key = generate_key(last.resp.latitude, last.resp.longitude)

\* The local wall-clock instant, date and distance to 14:00 of an upstream
\* sample under the arguments of a call of _process_timeseries.
LocalOf(a, e) == e.time + UtcOffset(get_timezone(a.lat, a.lon, a.tz))
DateOf(a, e) == LocalOf(a, e) \div 86400
DistOf(a, e) ==
    Abs((LocalOf(a, e) % 86400) - (TARGET_HOUR * 3600 + TARGET_MINUTE * 60))

Sampled == call.op = "_process_timeseries" /\ call.done

\* C13: every reading that the daily sampling returns is a sample of the
\* reading's local date (its temperature, UTC time and local time of day),
\* and no sample of that date is closer to 14:00 local time, whatever the
\* order of the samples.
C13_ClosestToTargetKept ==
    Sampled =>
        LET a == call.arg
            ts == a.timeseries
        IN  \A i \in 1..Len(call.result) :
                LET r == call.result[i]
                IN  \E j \in 1..Len(ts) :
                        /\ ts[j].time = r.source_time
                        /\ ts[j].air_temperature = r.temperature
                        /\ DateOf(a, ts[j]) = r.date
                        /\ LocalOf(a, ts[j]) % 86400 = r.time
                        /\ \A k \in 1..Len(ts) :
                              DateOf(a, ts[k]) = r.date =>
                                  DistOf(a, ts[j]) <= DistOf(a, ts[k])

\* Two samples of one date, the first 3600 s from the target and the second
\* 600 s: the reading of the date is the second.
C13_Witness ==
    /\ Sampled
    /\ Len(call.arg.timeseries) = 2
    /\ DateOf(call.arg, call.arg.timeseries[1])
           = DateOf(call.arg, call.arg.timeseries[2])
    /\ DistOf(call.arg, call.arg.timeseries[1]) = 3600
    /\ DistOf(call.arg, call.arg.timeseries[2]) = 600
    /\ Len(call.result) = 1
    /\ call.result[1].source_time = call.arg.timeseries[2].time

\* C14: the daily sampling returns one reading for each local date that
\* occurs among the samples and none for any other date.
C14_OneReadingPerDate ==
    Sampled =>
        LET a == call.arg
            dates == { DateOf(a, a.timeseries[j]) : j \in 1..Len(a.timeseries) }
        IN  /\ { call.result[i].date : i \in 1..Len(call.result) } = dates
            /\ Len(call.result) = Cardinality(dates)

\* Three samples on two local dates, the one after local midnight given
\* first: two readings.
C14_Witness ==
    /\ Sampled
    /\ Len(call.arg.timeseries) = 3
    /\ Len(call.result) = 2
    /\ DateOf(call.arg, call.arg.timeseries[1]) = 1
    /\ DateOf(call.arg, call.arg.timeseries[2]) = 0
    /\ call.arg.timeseries[1].time < 86400

\* The dates of a list of readings never decrease / always increase.
Ascending(f) == \A i \in 1..Len(f) - 1 : f[i].date <= f[i + 1].date
StrictlyAscending(f) == \A i \in 1..Len(f) - 1 : f[i].date < f[i + 1].date

Constructed == call.op = "ForecastResponse" /\ call.done

\* C12 (as stated): every response of get_forecast and every constructed
\* ForecastResponse has its readings in strictly ascending order of date,
\* no date twice.
C12_StrictlyAscendingEverywhere ==
    /\ last.path \in Served => StrictlyAscending(last.resp.forecasts)
    /\ Constructed => StrictlyAscending(call.result.forecasts)

\* C12 (amended): every response of get_forecast has its readings in
\* strictly ascending order of date; a constructed ForecastResponse holds
\* the readings it was given, all of them, in ascending order of date,
\* readings of one date in the order given.
C12_AscendingAndStrictWhenServed ==
    /\ last.path \in Served => StrictlyAscending(last.resp.forecasts)
    /\ Constructed =>
          LET given == call.arg.forecasts
              f == call.result.forecasts
          IN  /\ Ascending(f)
              /\ Len(f) = Len(given)
              /\ \E perm \in [1..Len(f) -> 1..Len(f)] :
                    /\ \A i, j \in 1..Len(f) : i # j => perm[i] # perm[j]
                    /\ \A i \in 1..Len(f) : f[i] = given[perm[i]]
                    /\ \A i, j \in 1..Len(f) :
                          (i < j /\ f[i].date = f[j].date) => perm[i] < perm[j]

\* A response was constructed from three readings given latest first, two
\* of them of one date: it holds all three, the earliest first.
C12_Witness ==
    /\ Constructed
    /\ Len(call.arg.forecasts) = 3
    /\ call.arg.forecasts[1].date = 1
    /\ call.arg.forecasts[2].date = 1
    /\ call.arg.forecasts[1] # call.arg.forecasts[2]
    /\ call.arg.forecasts[3].date = 0
    /\ call.result.forecasts[1] = call.arg.forecasts[3]
    /\ call.result.forecasts[2] = call.arg.forecasts[1]
    /\ call.result.forecasts[3] = call.arg.forecasts[2]

C17_FirstMinOfLimitAndReadings ==
    (last.path \in Served /\ last.days # 0) =>
        LET m == Len(last.src.orig)
            n == IF last.days < m THEN last.days ELSE m
        IN  /\ Len(last.resp.forecasts) = n
            /\ last.resp.days_returned = n
            /\ \A i \in 1..n : last.resp.forecasts[i].date = last.src.orig[i].date

\* A step is a direct call of the cache manager's operation op.
DirectCall(op) == hist'.gets = hist.gets + 1 /\ call'.op = op

\* C18 (as stated): cache.get of a key with a live, unexpired entry returns that entry
\* and adds 1 to its hit_count and to hits, misses unchanged; of any other
\* key it returns none and adds 1 to misses, hits and every entry unchanged.
\* No other entry and no stale entry changes either way.
C18_GetCountsHitOrMiss ==
    [][ DirectCall("get") =>
          LET k == call'.arg
              cache == cache_manager.cache
              live == k \in DOMAIN cache /\ now < cache[k].expires
          IN  /\ cache_manager'.stale_cache = cache_manager.stale_cache
              /\ DOMAIN cache_manager'.cache = DOMAIN cache
              /\ \A x \in DOMAIN cache \ {k} : cache_manager'.cache[x] = cache[x]
              /\ IF live
                 THEN /\ call'.result.found
                      /\ call'.result.entry = cache_manager'.cache[k]
                      /\ cache_manager'.cache[k] =
                             [cache[k] EXCEPT !.hit_count = @ + 1]
                      /\ cache_manager'.stats.hits = cache_manager.stats.hits + 1
                      /\ cache_manager'.stats.misses = cache_manager.stats.misses
                 ELSE /\ ~call'.result.found
                      /\ cache_manager'.cache = cache
                      /\ cache_manager'.stats.hits = cache_manager.stats.hits
                      /\ cache_manager'.stats.misses =
                             cache_manager.stats.misses + 1
      ]_vars

\* C19 (amended): cache.get never returns an entry that was put in the live
\* table CACHE_TTL_SECONDS ago or earlier, and a call answered from the
\* live table (cached, not stale) returns data put there less than
\* CACHE_TTL_SECONDS before; the time is counted from the insertion (line
\* 80), which is not earlier than created_at (line 73), the cached_at of
\* the answer.
C19_LiveAnswersStoredWithinTTL ==
    [][ /\ DirectCall("get") =>
              ( call'.result.found =>
                  /\ now' < call'.result.entry.expires
                  /\ call'.result.entry.created_at
                        <= call'.result.entry.expires - CACHE_TTL_SECONDS )
        /\ \A r \in Requests :
              ( /\ pc[r] # "done" /\ pc'[r] = "done"
                /\ last'.resp.cached /\ ~last'.resp.stale ) =>
                  /\ last'.resp.cached_at # NoTime
                  /\ now' < last'.src.expires
                  /\ last'.src.created_at
                        <= last'.src.expires - CACHE_TTL_SECONDS
                  /\ last'.src.created_at = last'.resp.cached_at
      ]_vars

\* C19 (as stated): cache.get never returns an entry as old as the TTL, and
\* a call answered from the live table (cached, not stale) returns data
\* whose age, counted from created_at, is less than CACHE_TTL_SECONDS.
C19_LiveAnswersYoungerThanTTL ==
    [][ /\ DirectCall("get") =>
              ( call'.result.found =>
                  now - call'.result.entry.created_at < CACHE_TTL_SECONDS )
        /\ \A r \in Requests :
              ( /\ pc[r] # "done" /\ pc'[r] = "done"
                /\ last'.resp.cached /\ ~last'.resp.stale ) =>
                  /\ last'.resp.cached_at # NoTime
                  /\ now - last'.resp.cached_at < CACHE_TTL_SECONDS
                  /\ last'.src.created_at = last'.resp.cached_at
      ]_vars

\* A call and a direct lookup were both answered from the live entry of
\* the key when its age, counted from created_at, had reached
\* CACHE_TTL_SECONDS: set had read the clock later at line 80 than at line
\* 73, and the entry had been in the table for less than the TTL.
C19_Witness ==
    /\ last.path = "hit"
    /\ last.resp.cached_at = 1
    /\ now - last.resp.cached_at >= CACHE_TTL_SECONDS
    /\ now < last.src.expires
    /\ call.op = "get"
    /\ call.result.found
    /\ call.result.entry.created_at = 1
    /\ now < call.result.entry.expires

\* C20: cache.get_stale returns the entry in the stale slot of the key,
\* expired or not, or none when the slot is empty, and changes nothing:
\* neither counter, no hit_count, neither table.
C20_GetStaleReadsOnly ==
    [][ DirectCall("get_stale") =>
          LET k == call'.arg
              stale == cache_manager.stale_cache
          IN  /\ cache_manager' = cache_manager
              /\ IF k \in DOMAIN stale
                 THEN call'.result.found /\ call'.result.entry = stale[k]
                 ELSE ~call'.result.found
      ]_vars

\* get_stale returned an entry that was set more than the TTL ago.
C20_Witness ==
    /\ call.op = "get_stale"
    /\ call.result.found
    /\ call.result.entry.expires <= now
    /\ call.arg \in DOMAIN cache_manager.stale_cache

\* ---- C21

\* What a caller can see of a key: its live entry and its stale entry
LiveOf(cm, k, t) == IF Contains(cm.cache, k, t) THEN cm.cache[k] ELSE NoEntry
StaleOf(cm, k) ==
    IF k \in DOMAIN cm.stale_cache THEN cm.stale_cache[k] ELSE NoEntry

\* A direct call of cache_manager.set
SetStep == hist'.puts = hist.puts + 1

\* What a set that begins at now and ends at now' does to its own key: the
\* new entry is live, created at the beginning of the call and expiring
\* CACHE_TTL_SECONDS after its end.  An entry that is live to the end of
\* the call has become the stale one; without a live entry at the
\* beginning the stale slot is as before; an entry that expires during the
\* call has become the stale one or has not, as the clock read at line 77.
SetOnKey(key) ==
    /\ Contains(cache_manager'.cache, key, now')
    /\ cache_manager'.cache[key].created_at = now
    /\ cache_manager'.cache[key].expires = now' + CACHE_TTL_SECONDS
    /\ cache_manager'.cache[key].hit_count = 0
    /\ Contains(cache_manager.cache, key, now') =>
          StaleOf(cache_manager', key) = cache_manager.cache[key]
    /\ ~Contains(cache_manager.cache, key, now) =>
          StaleOf(cache_manager', key) = StaleOf(cache_manager, key)
    /\ StaleOf(cache_manager', key)
          \in {StaleOf(cache_manager, key), LiveOf(cache_manager, key, now)}

\* The live entry that an insertion of key pushes out, if any
Evicted(cm, key, t) ==
    LET live == { k \in DOMAIN cm.cache : Contains(cm.cache, k, t) }
    IN  IF key \notin live /\ Cardinality(live) >= cm.maxsize
        THEN {Head(SelectSeq(cm.order, LAMBDA x : x \in live))}
        ELSE {}

C22_HitRate ==
    [][DirectCall("get_statistics") =>
         LET s == call'.result
             total == cache_manager.stats.hits + cache_manager.stats.misses
         IN  /\ s.hits = cache_manager.stats.hits
             /\ s.misses = cache_manager.stats.misses
             /\ (s.hit_rate = None) <=> (total = 0)
             /\ s.hit_rate # None =>
                   /\ s.hit_rate[2] > 0
                   /\ s.hit_rate[1] * total
                         = cache_manager.stats.hits * 100 * s.hit_rate[2]
                   /\ 0 <= s.hit_rate[1]
                   /\ s.hit_rate[1] <= 100 * s.hit_rate[2]
             /\ cache_manager'.stats = cache_manager.stats
             /\ cache_manager'.stale_cache = cache_manager.stale_cache
             /\ cache_manager'.cache = Expire(cache_manager.cache, now)
             /\ s.size = Cardinality(DOMAIN cache_manager'.cache)]_vars

\* statistics were read after one hit and one miss, the entry that was hit
\* having expired since: the rate is 50 and the live table is empty
C22_Witness ==
    /\ call.op = "get_statistics"
    /\ call.result.hits = 1
    /\ call.result.misses = 1
    /\ call.result.hit_rate = <<50, 1>>
    /\ call.result.size = 0
    /\ hist.puts = 1
    /\ cache_manager.cache = EmptyMap

\* ---- C23

\* The slots of every key hold what that key's set calls (those that
\* stored) leave when applied one after the other, the live value while
\* it has not expired.
SlotsAsSetInSequence ==
    \A k \in Keys :
          /\ LiveOf(cache_manager, k, now).created_at =
                IF /\ hist.ref[k].live # NoTime
                   /\ now < hist.ref[k].expires
                THEN hist.ref[k].live ELSE NoTime
          /\ StaleOf(cache_manager, k).created_at = hist.ref[k].stale

C24_CheckAvailabilityNeverRaises ==
    call.op = "check_availability" =>
        /\ ~call.result.raised
        /\ call.result.value = (call.arg = "200")

\* ---- C25

\* C25: a call with a latitude or a longitude out of range is rejected
\* before any cache lookup, counter change, lock creation or upstream
\* fetch: no such call is ever waiting for a lock or fetching, its key has
\* no lock and no upstream call, and the counters stay at zero while only
\* such calls have been made.
C25_OutOfRangeRejectedFirst ==
    /\ \A r \in Requests :
          pc[r] \in {"waitlock", "fetching"} => InRange(req[r].lat, req[r].lon)
    /\ \A c \in {NorthOfPole} :
          /\ lock_key_of(KeyOfCoord(c)) \notin DOMAIN fetch_locks
          /\ hist.calls[KeyOfCoord(c)] = 0
    /\ (\A c \in {Belgrade} : hist.nreq[KeyOfCoord(c)] = 0) =>
          cache_manager.stats.hits + cache_manager.stats.misses = 0

\* ---- C26

\* The upstream call of some request fails with httpx.HTTPError in this step
UpstreamFails(r) ==
    /\ pc[r] = "fetching"
    /\ pc'[r] = "done"
    /\ hist'.fails[req[r].key] = hist.fails[req[r].key] + 1
    /\ last'.path \notin {"error", "cancelled"}

\* C26: when the upstream call fails (timeout, transport error, non-2xx
\* answer) and the key has no stale entry, get_forecast fails as
\* unavailable and the route answers 504, nothing is stored; with a stale
\* entry the failure is not surfaced: the route answers 200 with it.
C26_GatewayTimeoutOnlyWithoutFallback ==
    [][\A r \in Requests :
         UpstreamFails(r) =>
            IF req[r].key \in DOMAIN cache_manager.stale_cache
            THEN /\ last'.path = "stale"
                 /\ last'.resp.stale
                 /\ status_code(last'.path) = 200
            ELSE /\ last'.path = "unavailable"
                 /\ status_code(last'.path) = 504
                 /\ cache_manager' = cache_manager]_vars

\* a request ended as unavailable after its upstream call failed and was
\* answered 504; its key has no stale entry
C26_Witness ==
    /\ last.path = "unavailable"
    /\ status_code(last.path) = 504
    /\ last.key \notin DOMAIN cache_manager.stale_cache
    /\ hist.fails[last.key] >= 1

\* ---- C27

\* C27: a request that gives a location name without both coordinates
\* calls geocode exactly once (and geocode asks the geocoder at most once);
\* when geocode yields no result the route answers 404 and no forecast
\* cache lookup, counter change, lock or upstream fetch is made.  (The
\* form of the web interface geocodes in the same way and answers with
\* its error page.)
C27_NotFoundWithoutForecastWork ==
    [][location_service' # location_service =>
         /\ location_service'.ncalls = location_service.ncalls + 1
         /\ location_service'.provider <= location_service.provider + 1
         /\ location_service'.returned = None =>
               /\ last'.path = "not_found"
               /\ last'.via = "api" => status_code(last'.path) = 404
               /\ last'.via = "web" => /\ web_status_code(last'.path) = 200
                                       /\ page_error(last'.path)
               /\ cache_manager' = cache_manager
               /\ fetch_locks' = fetch_locks
               /\ hist' = hist
               /\ req' = req]_vars

\* a request by name was answered not-found after one geocode call, and
\* the forecast cache was never looked at
C27_Witness ==
    /\ last.path = "not_found"
    /\ last.via = "api"
    /\ location_service.ncalls = 1
    /\ location_service.returned = None
    /\ hist.lookups = 0
    /\ \E r \in Requests : pc[r] = "done"

\* ---- C28

\* A geocode call is made in this step for a name whose key is k
GeocodeCall(k) ==
    /\ location_service'.ncalls = location_service.ncalls + 1
    /\ call'.op = "geocode"
    /\ cache_key_of(call'.arg) = k

\* C28 as stated: a geocode call for a name that was asked for before,
\* less than the cache TTL ago, returns what the first call returned and
\* does not call the geocoder.
C28_SecondCallSameAsFirst ==
    [][\A k \in {"oslo", "atlantis"} :
         (/\ GeocodeCall(k)
          /\ k \in DOMAIN location_service.first
          /\ now < location_service.first[k].at + GEOCODE_TTL) =>
            /\ location_service'.returned = location_service.first[k].result
            /\ location_service'.provider = location_service.provider]_vars

\* C28 amended: a geocode call for a name to which the geocoder has
\* answered before (with a location or with None), less than the cache TTL
\* ago, returns that answer and does not call the geocoder; a call that
\* follows only calls in which the geocoder raised calls it again.
C28_SecondCallSameAsAnswered ==
    [][\A k \in {"oslo", "atlantis"} :
         GeocodeCall(k) =>
            IF /\ k \in DOMAIN location_service.answered
               /\ now < location_service.answered[k].at + GEOCODE_TTL
            THEN /\ location_service'.returned
                       = location_service.answered[k].result
                 /\ location_service'.provider = location_service.provider
            ELSE location_service'.provider = location_service.provider + 1]_vars

\* the second call for Oslo, spelled differently, returned the location
\* that the first call got from the geocoder, which was asked once
C28_Witness ==
    /\ call.op = "geocode"
    /\ call.arg = " oslo "
    /\ location_service.ncalls = 2
    /\ location_service.provider = 1
    /\ call.result # None
    /\ call.result = location_service.first["oslo"].result

\* ---- C29

\* C29: timezone resolution does not fail: with an override that is a
\* valid zone name it gives that zone; with no override or an invalid one
\* it gives the zone found for the coordinates; when none is found for
\* them it gives UTC.
C29_ResolutionNeverFails ==
    (call.op = "to_local_time" /\ call.done) =>
        LET a == call.arg
            found == timezone_at(a.lat, a.lon)
        IN  /\ ~call.result.raised
            /\ (a.tz \in {"Asia/Tokyo"}) => call.result.zone = a.tz
            /\ (a.tz \in {"none", "Mars/Phobos"} /\ found # "") =>
                  call.result.zone = found
            /\ (a.tz \in {"none", "Mars/Phobos"} /\ found = "") =>
                  call.result.zone = "UTC"

\* an invalid override was given for Belgrade and the zone of Belgrade
\* was resolved
C29_Witness ==
    /\ call.op = "to_local_time"
    /\ call.done
    /\ call.arg.tz = "Mars/Phobos"
    /\ ~call.result.raised
    /\ call.result.zone = "Europe/Belgrade"

\* ---- C30

\* C30: whatever the readings and the days_returned supplied, a
\* constructed ForecastResponse has days_returned equal to the number of
\* its readings, and so has every response that get_forecast returns.
C30_DaysReturnedIsLength ==
    /\ Constructed =>
          call.result.days_returned = Len(call.result.forecasts)
    /\ last.path \in Served =>
          last.resp.days_returned = Len(last.resp.forecasts)

\* The calls that are past the re-check of line 86 and have not yet stored
\* or returned: they wait for the upstream call of line 102.
Fetching(k) == { r \in Requests : pc[r] = "fetching" /\ req[r].key = k }

\* C31: for every key at most one call is between the re-check and the
\* store, which is where the upstream call is made; that call holds the
\* lock of the key, and the other calls in flight for the key wait for it.
C31_OneFetchInFlightPerKey ==
    \A k \in Keys :
        /\ Cardinality(Fetching(k)) <= 1
        /\ \A r \in Fetching(k) :
              /\ lock_key_of(k) \in DOMAIN fetch_locks
              /\ fetch_locks[lock_key_of(k)].locked
              /\ \A q \in InFlight(k) \ {r} : pc[q] = "waitlock"

\* A call makes the only upstream call for its key so far while at least
\* one other call for the key waits for the lock.
C31_Witness ==
    \E k \in Keys :
        /\ Cardinality(Fetching(k)) = 1
        /\ Cardinality(InFlight(k)) >= 2
        /\ hist.calls[k] = 1

\* The waiters of the lock of key k, as a set
Waiters(locks, k) ==
    { locks[lock_key_of(k)].waiters[i].task :
        i \in 1..Len(locks[lock_key_of(k)].waiters) }

\* C32: the registry has one lock per key at most and only locks of keys;
\* a lock is made once, by the first call for its key whose first probe
\* misses, and no step removes it or makes another for the key; every call
\* in flight for a key holds that lock or is among its waiters.
C32_OneLockPerKeyForEver ==
    [][ /\ DOMAIN fetch_locks \subseteq DOMAIN fetch_locks'
        /\ DOMAIN fetch_locks' \subseteq { lock_key_of(k) : k \in Keys }
        /\ \A k \in Keys :
              /\ hist'.created[k] <= 1
              /\ lock_key_of(k) \in DOMAIN fetch_locks' <=> hist'.created[k] = 1
              /\ hist'.created[k] > hist.created[k] =>
                    /\ hist.calls[k] = 0 /\ InFlight(k) = {}
                    /\ hist'.nreq[k] = hist.nreq[k] + 1
                    /\ cache_manager'.stats.misses > cache_manager.stats.misses
              /\ \A r \in Requests :
                    (pc'[r] \in {"waitlock", "fetching"} /\ req'[r].key = k) =>
                        /\ lock_key_of(k) \in DOMAIN fetch_locks'
                        /\ \/ pc'[r] = "fetching"
                                 /\ fetch_locks'[lock_key_of(k)].locked
                           \/ pc'[r] = "waitlock"
                                 /\ r \in Waiters(fetch_locks', k) ]_vars

\* Three calls for a key have missed while no entry was stored for it: one
\* lock was made, one call holds it and makes the only upstream call, and
\* two wait on it.
C32_Witness ==
    \E k \in Keys :
        /\ hist.created[k] = 1
        /\ Cardinality(InFlight(k)) >= 3
        /\ Cardinality(Waiters(fetch_locks, k)) >= 2
        /\ hist.calls[k] = 1

\* The key of the call that enters get_forecast in this step
EnteredKey(r) == IF pc'[r] = "done" THEN last'.key ELSE req'[r].key

\* C33: a call whose first probe hits (its key has an item in the live
\* table that is unexpired at both readings of the clock by get) returns
\* in the same uninterrupted run, served by the first probe, and no other
\* call is: the lock registry and every lock in it are as before (none
\* made, taken or queued on), no upstream call and no miss is added,
\* whoever holds or waits for the lock of the key.
C33_FirstProbeHitTakesNoLock ==
    [][ \A r \in Requests :
          (pc[r] = "idle" /\ pc'[r] # "idle") =>
            LET k == EnteredKey(r)
                live == /\ k \in DOMAIN cache_manager.cache
                        /\ now < cache_manager.cache[k].expires
                        /\ now' < cache_manager.cache[k].expires
            IN  /\ live <=> (pc'[r] = "done" /\ last'.path = "hit")
                /\ live =>
                     /\ fetch_locks' = fetch_locks
                     /\ hist'.calls = hist.calls
                     /\ hist'.created = hist.created
                     /\ cache_manager'.stats.misses = cache_manager.stats.misses
                     /\ cache_manager'.stats.hits = cache_manager.stats.hits + 1
      ]_vars

\* A call was served by its first probe while another call for the same key
\* holds the lock of the key and a third waits for that lock.
C33_Witness ==
    /\ last.path = "hit"
    /\ Fetching(last.key) # {}
    /\ \E q \in Requests : pc[q] = "waitlock" /\ req[q].key = last.key
    /\ fetch_locks[lock_key_of(last.key)].locked

\* C34: when every upstream call ends and the task of every waiter whose
\* future is done runs, no call stays at the lock or at the upstream for
\* ever: from some moment on every call has returned (a response or a
\* failure) or has never been made; a call that has returned stays
\* returned, so this is to say that every call that waits returns.  And at
\* no time are the calls in flight for a key all stuck: one of them is at
\* the upstream, or is a waiter that was woken or cancelled and runs next.
C34_EveryCallReturns ==
    /\ \A r \in Requests : <>[](pc[r] \notin {"waitlock", "fetching"})
    /\ [](\A k \in Keys :
            InFlight(k) # {} =>
                \E r \in InFlight(k) : pc[r] = "fetching" \/ Runnable(r))

\* All the calls have returned; those for the key of the last one
\* overlapped in time, and an upstream call for that key failed.
C34_Witness ==
    /\ \A r \in Requests : pc[r] = "done"
    /\ last.path \in {"hit_locked", "fresh", "unavailable", "error"}
    /\ hist.nreq[last.key] >= 2
    /\ hist.lone[last.key] = 1
    /\ hist.fails[last.key] >= 1

\* The positions in the input of the samples of local date d that are at
\* the least distance from the target among the samples of that date
Closest(a, d) ==
    LET ts == a.timeseries
        of_date == { j \in 1..Len(ts) : DateOf(a, ts[j]) = d }
    IN  { j \in of_date :
            \A k \in of_date : DistOf(a, ts[j]) <= DistOf(a, ts[k]) }

\* C35: the reading of a date is the first in the input of the samples of
\* that date at the least distance from the target: a later sample at the
\* same distance does not take its place.
C35_TieKeepsFirstSeen ==
    Sampled =>
        \A i \in 1..Len(call.result) :
            LET first == CHOOSE j \in Closest(call.arg, call.result[i].date) :
                            \A k \in Closest(call.arg, call.result[i].date) :
                                j <= k
                chosen == call.arg.timeseries[first]
            IN  /\ call.result[i].source_time = chosen.time
                /\ call.result[i].temperature = chosen.air_temperature

\* Two samples of one date at the same distance on either side of the
\* target, the later one given first: the reading is the later one.
C35_Witness ==
    /\ Sampled
    /\ Len(call.arg.timeseries) = 2
    /\ Closest(call.arg, DateOf(call.arg, call.arg.timeseries[1])) = {1, 2}
    /\ call.arg.timeseries[1].time > call.arg.timeseries[2].time
    /\ Len(call.result) = 1
    /\ call.result[1].source_time = call.arg.timeseries[1].time

\* C36: when get_forecast is the only caller of the cache manager, every
\* store (line 149) is for a key that has no live entry at that moment, so
\* set never moves an entry to the stale table: the stale table is empty in
\* every reachable state.
C36_StaleSlotStaysEmpty ==
    [][ /\ \A r \in Requests :
              (pc[r] = "fetching" /\ pc'[r] = "done" /\ last'.path = "fresh") =>
                  ~(/\ req[r].key \in DOMAIN cache_manager.cache
                    /\ now < cache_manager.cache[req[r].key].expires)
        /\ cache_manager'.stale_cache = EmptyMap ]_vars

\* A key's entry expired and a later call fetched and stored the key's
\* forecast a second time: the expired entry was dropped, not kept as stale.
C36_Witness ==
    /\ last.path = "fresh"
    /\ hist.expiries[last.key] >= 1
    /\ hist.calls[last.key] >= 2
    /\ hist.fails[last.key] = 0
    /\ last.key \notin DOMAIN cache_manager.stale_cache
    /\ last.key \in DOMAIN cache_manager.cache

\* C37: what the lookups of one get_forecast call add to the counters of
\* the cache manager.  A call that has reached the upstream call has looked
\* twice and missed twice (2 misses, no hit), however it ends; a call that
\* waits for the lock has missed once, also when it is cancelled there; a
\* call served by the first probe
\* added 1 hit and no miss; a call served by the re-check added 1 miss and
\* 1 hit.
C37_CountersPerCall ==
    /\ \A r \in Requests :
          /\ pc[r] = "fetching" => req[r].misses = 2 /\ req[r].hits = 0
          /\ pc[r] = "waitlock" => req[r].misses = 1 /\ req[r].hits = 0
    /\ last.path \in {"fresh", "stale", "unavailable", "error"} =>
          last.misses = 2 /\ last.hits = 0
    /\ last.path = "cancelled" =>
          last.misses = last.fetches + 1 /\ last.hits = 0
    /\ last.path = "hit" => last.hits = 1 /\ last.misses = 0
    /\ last.path = "hit_locked" => last.hits = 1 /\ last.misses = 1

\* Three calls for one key overlapped: the one that fetched added 2 misses,
\* the two served by the re-check 1 miss and 1 hit each, 4 misses and 2
\* hits in all.
C37_Witness ==
    /\ last.path = "hit_locked"
    /\ hist.nreq[last.key] = 3
    /\ hist.calls[last.key] = 1
    /\ \A r \in Requests : pc[r] \in {"idle", "done"}
    /\ cache_manager.stats.misses = 4
    /\ cache_manager.stats.hits = 2
    /\ hist.lookups = 6

\* A step of call r other than one that returns a response: the call
\* enters and misses, takes the lock and misses again, fails, or is
\* cancelled
Unserved(r) ==
    /\ pc'[r] # pc[r]
    /\ ~(pc'[r] = "done" /\ last'.path \in Served)

\* C38: a call that ends in failure is made of steps that change neither
\* table: its lookups miss (or raise KeyError) and its end stores nothing.
\* In each of its steps the live table (items, expired ones included), the
\* stale table and the hit counter stay as they are; the miss counter and
\* the lock registry are what changes.  The order of use of the live
\* table stays as it is too, but for the expired key that a KeyError
\* leaves at its end.  A call that ends holding the lock leaves it free;
\* one that is cancelled while it waits leaves the lock as its owner has
\* it; one that ends at its first lookup has touched no lock.
C38_FailureLeavesTables ==
    [][ \A r \in Requests :
          Unserved(r) =>
            /\ cache_manager'.cache = cache_manager.cache
            /\ cache_manager'.order =
                  IF pc'[r] = "done" /\ last'.path = "key_error"
                  THEN getlink(cache_manager.order, last'.key)
                  ELSE cache_manager.order
            /\ cache_manager'.stale_cache = cache_manager.stale_cache
            /\ cache_manager'.stats.hits = cache_manager.stats.hits
            /\ cache_manager'.stats.misses >= cache_manager.stats.misses
            /\ pc'[r] = "done" =>
                  /\ last'.path \in {"unavailable", "error", "cancelled",
                                      "key_error"}
                  /\ cache_manager'.stats = cache_manager.stats
                  /\ cache_manager'.maxsize = cache_manager.maxsize
                  /\ LET lk == lock_key_of(req[r].key)
                     IN  IF pc[r] = "idle"
                         THEN fetch_locks' = fetch_locks
                         ELSE IF pc[r] = "fetching"
                         THEN ~fetch_locks'[lk].locked
                         ELSE fetch_locks'[lk].locked = fetch_locks[lk].locked
                  ]_vars

\* A call failed after its two lookups missed an entry that had expired:
\* the expired entry is still in the live table and the stale table still
\* holds the entry that was there.
C38_Witness ==
    /\ last.path = "error"
    /\ last.misses = 2
    /\ last.key \in DOMAIN cache_manager.cache
    /\ cache_manager.cache[last.key].expires <= now
    /\ last.key \in DOMAIN cache_manager.stale_cache

\* C39: an upstream call that raises a transport error, a timeout or a
\* status error ends with the stale entry of the key when there is one and
\* with upstream-unavailable otherwise; one that raises anything else (a
\* body that does not parse, an entry that does not validate, the
\* cancellation of the task) ends with that exception even when the key
\* has a stale entry: no response, the cache manager as it was, the lock of
\* the key free.
C39_FallbackOnlyForHTTPError ==
    [][ \A r \in Requests, exc \in Exceptions :
          FetchRaises(r, exc) =>
            LET k == req[r].key
            IN  IF exc \in {"ConnectError", "ReadTimeout", "HTTPStatusError"}
                THEN last'.path = IF k \in DOMAIN cache_manager.stale_cache
                                  THEN "stale" ELSE "unavailable"
                ELSE /\ last'.path =
                          IF exc = "CancelledError" THEN "cancelled" ELSE "error"
                     /\ last'.resp = NoResponse
                     /\ cache_manager' = cache_manager
                     /\ ~fetch_locks'[lock_key_of(k)].locked
                     /\ pc'[r] = "done" ]_vars

\* A call ended with an exception that is not an HTTPError while its key
\* has a stale entry and a live one; the lock of the key is free.
C39_Witness ==
    /\ last.path = "error"
    /\ last.key \in DOMAIN cache_manager.stale_cache
    /\ last.key \in DOMAIN cache_manager.cache
    /\ now < cache_manager.cache[last.key].expires
    /\ ~fetch_locks[lock_key_of(last.key)].locked
    /\ InFlight(last.key) = {}

\* The readings of the upstream answer for the place of a response,
\* sampled under a timezone override
ReadingsUnder(resp, tz) ==
    _process_timeseries(TS_Unsorted, resp.latitude, resp.longitude, tz)

FromLive == {"hit", "hit_locked"}

\* C40: the key of a call is made of its rounded coordinates alone, and a
\* call served from the live entry gets the readings as they were sampled
\* under the override of the call that stored the entry, whatever its own
\* override; a call that stores gets them under its own.  So a call served
\* from the live entry gets the same readings as the call for the key that
\* returned before it, also when their overrides differ.
C40_HitReadingsFromPopulatingZone ==
    [][ /\ last'.path \in FromLive \cup {"fresh"} =>
              /\ last'.key = generate_key(last'.resp.latitude,
                                          last'.resp.longitude)
              /\ last'.resp.forecasts =
                     ReadingsUnder(last'.resp, hist'.zone[last'.key])
        /\ last'.path = "fresh" => hist'.zone[last'.key] = last'.tz
        /\ (/\ last' # last
            /\ last'.path \in FromLive
            /\ last.path \in FromLive \cup {"fresh"}
            /\ last'.key = last.key) =>
              last'.resp.forecasts = last.resp.forecasts ]_vars

\* A call with no override was served from the entry that a call with the
\* override Asia/Tokyo had stored: its readings are the Tokyo ones, and
\* the sample chosen for the first day is not the one closest to 14:00 in
\* its own local zone.
C40_Witness ==
    /\ last.path = "hit"
    /\ last.tz = "none"
    /\ hist.zone[last.key] = "Asia/Tokyo"
    /\ last.resp.forecasts = ReadingsUnder(last.resp, "Asia/Tokyo")
    /\ last.resp.forecasts # ReadingsUnder(last.resp, "none")
    /\ last.resp.forecasts[1].source_time
           # ReadingsUnder(last.resp, "none")[1].source_time

====
